---------------------------- MODULE Spec2Model ----------------------------
(***************************************************************************)
(* Model of the comprehensive product-analysis pipeline of prime-ai        *)
(* (src/server.js and its split copy under src/services, src/unnamed):     *)
(* POST /analyze-comprehensive -> analyzeProductImage -> buildSearchQuery  *)
(* -> performWebSearch -> analyzeComprehensive (scrapeMultipleUrls,        *)
(* synthesis call, extractJsonFromText) -> response.                       *)
(*                                                                         *)
(* Strings are sequences of symbols.  A symbol is either the whitespace    *)
(* " " or a whitespace-free chunk: inputs are spelled with one-character   *)
(* chunks ("a", "b", "0"), the fixed phrases of the code with word chunks  *)
(* that no input can spell, so equality of the sequences is equality of    *)
(* the JavaScript strings.  A JavaScript object is a function from its     *)
(* own keys to tagged values; a missing key reads as undefined.            *)
(***************************************************************************)
EXTENDS Integers, Sequences, FiniteSets, TLC

VARIABLES
  mode,          \* "pipeline": a request to the route; "search": performWebSearch called on its own
  pc,            \* position of the handler (the await it is suspended at)
  body,          \* req.body
  productData,   \* result of analyzeProductImage / argument of performWebSearch
  primaryQuery,  \* result of buildSearchQuery / argument of performWebSearch
  allResults,    \* performWebSearch: the local list of {query, results} groups
  searchResults, \* value returned by performWebSearch
  topResults,    \* analyzeComprehensive: searchResults.slice(0, 6)
  urlsToScrape,  \* scrapeMultipleUrls: searchResults.slice(0, maxUrls)
  idx,           \* scrapeMultipleUrls: position of the for-of loop (1-based)
  scrapedResults,\* scrapeMultipleUrls: pages pushed so far
  scrapedBlock,  \* the formatted context block given to the synthesis call
  trace,         \* every external call and delay completed so far, in order
  response,      \* what res.status(...).json(...) sent, or NoResponse
  inFlight,      \* the external calls started and not yet returned
  input,         \* argument of a function called on its own
  output,        \* what that function returned
  other,         \* the locals of the other request in progress, or Alone
  food           \* analyzeFoodImage and the web search service it uses: the
                 \* settings of the service and the locals of the function

vars == << mode, pc, body, productData, primaryQuery, allResults,
           searchResults, topResults, urlsToScrape, idx, scrapedResults, scrapedBlock,
           trace, response, inFlight, input, output, other, food >>

---------------------------------------------------------------------------
(* Bounds *)

MaxResults == 7        \* longest result list the search provider returns
MaxTextLen == 5        \* longest text of arbitrary tokens
MaxItems == 1          \* most items a Google answer carries
MaxTwoResults == 2     \* longest result list when two requests are in progress
NumLinks   == 3        \* distinct URLs among the results (longer lists repeat them)

(* Program constants *)

TopResults      == 6      \* searchResults.slice(0, 6)
MaxUrls         == 5      \* scrapeMultipleUrls(topResults, 5)
MaxLength       == 3000   \* scrapeUrl(url, maxLength = 3000)
BlockContentLen == 2000   \* formatScrapedContentForLLM: .slice(0, 2000)
FallbackDelayMs == 400    \* setTimeout(resolve, 400)
ScrapeDelayMs   == 500    \* setTimeout(resolve, 500)
VisibleTokens   == 4      \* visible_text.slice(0, 4)

---------------------------------------------------------------------------
(* JavaScript values *)

Undefined == [k |-> "undefined"]
Null      == [k |-> "null"]
Str(s)    == [k |-> "str", s |-> s]
List(l)   == [k |-> "list", l |-> l]

Get(o, key) == IF key \in DOMAIN o THEN o[key] ELSE Undefined

Min(a, b) == IF a < b THEN a ELSE b

\* Array.prototype.slice(0, n) / String.prototype.slice(0, n)
Slice(s, n) == SubSeq(s, 1, Min(n, Len(s)))

RECURSIVE TrimLeft(_)
TrimLeft(s) == IF s # << >> /\ Head(s) = " " THEN TrimLeft(Tail(s)) ELSE s

RECURSIVE TrimRight(_)
TrimRight(s) ==
  IF s # << >> /\ s[Len(s)] = " " THEN TrimRight(SubSeq(s, 1, Len(s) - 1)) ELSE s

\* String.prototype.trim
Trim(s) == TrimRight(TrimLeft(s))

\* Array.prototype.join(" ")
RECURSIVE Join(_)
Join(l) ==
  IF l = << >> THEN << >>
  ELSE IF Len(l) = 1 THEN l[1]
  ELSE l[1] \o << " " >> \o Join(Tail(l))

\* [..].filter(Boolean) on a list of strings: drops the empty ones
RECURSIVE FilterBoolean(_)
FilterBoolean(l) ==
  IF l = << >> THEN << >>
  ELSE IF Head(l) = << >> THEN FilterBoolean(Tail(l))
  ELSE << Head(l) >> \o FilterBoolean(Tail(l))

\* v?.toString()?.trim() || ""
TrimmedField(v) == IF v.k = "str" THEN Trim(v.s) ELSE << >>


---------------------------------------------------------------------------
(* Text returned by the language model: a sequence of tokens.  "lb" and    *)
(* "rb" are the characters { and }, "p" is a piece of prose without braces, *)
(* "m" is a brace-free list of complete members of a JSON object, carrying *)
(* the object it denotes, "k" is a key with its colon, whose value is the  *)
(* object that follows.                                                    *)

LB   == [t |-> "lb"]
RB   == [t |-> "rb"]
P    == [t |-> "p"]
M(o) == [t |-> "m", v |-> o]
K(key) == [t |-> "k", key |-> key]

EmptyObj == << >>

NoParse  == [k |-> "null"]
Obj(o)   == [k |-> "obj", o |-> o]

ParseFailed == [ok |-> FALSE, next |-> 0, o |-> EmptyObj]

\* JSON.parse inside an object, from position i of the span, with the
\* members `acc` read so far: members and keyed nested objects up to the
\* closing brace of this object
RECURSIVE ParseMembers(_, _, _)
ParseMembers(span, i, acc) ==
  IF i > Len(span) THEN ParseFailed
  ELSE IF span[i].t = "rb" THEN [ok |-> TRUE, next |-> i + 1, o |-> acc]
  ELSE IF span[i].t = "m" THEN ParseMembers(span, i + 1, span[i].v @@ acc)
  ELSE IF span[i].t = "k" /\ i < Len(span) /\ span[i + 1].t = "lb"
  THEN LET inner == ParseMembers(span, i + 2, EmptyObj)
       IN IF inner.ok
          THEN ParseMembers(span, inner.next, (span[i].key :> Obj(inner.o)) @@ acc)
          ELSE ParseFailed
  ELSE ParseFailed

\* JSON.parse of a span that starts with { and ends with }: the value when
\* the whole span is one object, and otherwise JSON.parse throws.
JSONParse(span) ==
  LET r == ParseMembers(span, 2, EmptyObj)
  IN IF r.ok /\ r.next = Len(span) + 1 THEN Obj(r.o) ELSE NoParse

MinOf(S) == CHOOSE x \in S : \A y \in S : x <= y
MaxOf(S) == CHOOSE x \in S : \A y \in S : x >= y

\* extractJsonFromText with a lazy match: from the leftmost { to the first }
extractJsonFromTextLazy(text) ==
  IF text = << >> THEN NoParse
  ELSE
    LET lbs == { i \in 1..Len(text) : text[i].t = "lb" } IN
    IF lbs = {} THEN NoParse
    ELSE
      LET first == MinOf(lbs)
          rbs   == { i \in (first + 1)..Len(text) : text[i].t = "rb" }
      IN IF rbs = {} THEN NoParse
         ELSE JSONParse(SubSeq(text, first, MinOf(rbs)))

\* extractJsonFromText that tells a failed parse from a missing span
extractJsonFromTextTagged(text) ==
  IF text = << >> THEN NoParse
  ELSE
    LET lbs == { i \in 1..Len(text) : text[i].t = "lb" } IN
    IF lbs = {} THEN NoParse
    ELSE
      LET first == MinOf(lbs)
          rbs   == { i \in (first + 1)..Len(text) : text[i].t = "rb" }
      IN IF rbs = {} THEN NoParse
         ELSE LET r == JSONParse(SubSeq(text, first, MaxOf(rbs)))
              IN IF r.k = "obj" THEN r ELSE [k |-> "malformed"]

\* extractJsonFromText whose pattern keeps the position of its last match (a
\* pattern object with the g flag used through exec): applied again to the
\* same text after a match, it finds no span
extractJsonFromTextSticky(text) ==
  IF pc = "extract_done" /\ output.k = "obj" THEN NoParse
  ELSE
    IF text = << >> THEN NoParse
    ELSE
      LET lbs == { i \in 1..Len(text) : text[i].t = "lb" } IN
      IF lbs = {} THEN NoParse
      ELSE
        LET first == MinOf(lbs)
            rbs   == { i \in (first + 1)..Len(text) : text[i].t = "rb" }
        IN IF rbs = {} THEN NoParse
           ELSE JSONParse(SubSeq(text, first, MaxOf(rbs)))

\* Utils.extractJsonFromText: text.match(/\{[\s\S]*\}/) then JSON.parse,
\* null when text is empty, when nothing matches and when the parse throws.
extractJsonFromText(text) ==
  IF text = << >> THEN NoParse
  ELSE
    LET lbs == { i \in 1..Len(text) : text[i].t = "lb" } IN
    IF lbs = {} THEN NoParse
    ELSE
      LET first == MinOf(lbs)
          rbs   == { i \in (first + 1)..Len(text) : text[i].t = "rb" }
      IN IF rbs = {} THEN NoParse
         ELSE JSONParse(SubSeq(text, first, MaxOf(rbs)))

---------------------------------------------------------------------------
(* ImageAnalysisService: the pure parts *)

Prefix ==
  << " ", "nutrition", " ", "facts,", " ", "ingredients", " ", "for", " " >>

FallbackSuffix ==
  << " ", "nutrition", " ", "facts", " ", "ingredients" >>

BarcodeLabelSuffix == << " ", "nutrition", " ", "facts" >>

\* a substitute that carries the defaults of the data model
MinimalWithDefaults ==
  [product_name |-> Null, brand |-> Null, visible_text |-> List(<< >>),
   confidence |-> Str(<< "low" >>)]

\* the object substituted when the vision reply cannot be extracted
MinimalProductData == [product_name |-> Null, brand |-> Null]

\* analyzeProductImage substituting {} instead of the object with null fields
ProductDataOfEmpty(text) ==
  LET r == extractJsonFromText(text)
  IN IF r.k = "obj" THEN r.o ELSE EmptyObj

\* analyzeProductImage after the vision call returned `text`
ProductDataOf(text) ==
  LET r == extractJsonFromText(text)
  IN IF r.k = "obj" THEN r.o ELSE MinimalProductData

\* productData.visible_text || []
VisibleText(pd) ==
  LET v == Get(pd, "visible_text")
  IN IF v.k = "list" THEN v.l ELSE << >>

\* buildSearchQuery that looks at the barcode before brand and product name
buildSearchQueryBarcodeFirst(pd) ==
  LET brand   == TrimmedField(Get(pd, "brand"))
      pname   == TrimmedField(Get(pd, "product_name"))
      barcode == TrimmedField(Get(pd, "barcode_or_upc"))
      q1 == Trim(Join(FilterBoolean(<< brand, pname >>)))
      q2 == IF barcode # << >> THEN barcode ELSE q1
      q3 == IF q2 = << >>
            THEN Trim(Join(Slice(VisibleText(pd), VisibleTokens)))
            ELSE q2
  IN Trim(Prefix \o q3)

\* buildSearchQuery that returns nothing when it found no base
buildSearchQueryEmptyOnNoBase(pd) ==
  LET brand   == TrimmedField(Get(pd, "brand"))
      pname   == TrimmedField(Get(pd, "product_name"))
      barcode == TrimmedField(Get(pd, "barcode_or_upc"))
      q1 == Trim(Join(FilterBoolean(<< brand, pname >>)))
      q2 == IF q1 = << >> /\ barcode # << >> THEN barcode ELSE q1
      q3 == IF q2 = << >>
            THEN Trim(Join(Slice(VisibleText(pd), VisibleTokens)))
            ELSE q2
  IN IF q3 = << >> THEN << >> ELSE Trim(Prefix \o q3)

\* buildSearchQuery that returns the base alone, without the fixed phrase
buildSearchQueryNoPhrase(pd) ==
  LET brand   == TrimmedField(Get(pd, "brand"))
      pname   == TrimmedField(Get(pd, "product_name"))
      barcode == TrimmedField(Get(pd, "barcode_or_upc"))
      q1 == Trim(Join(FilterBoolean(<< brand, pname >>)))
      q2 == IF q1 = << >> /\ barcode # << >> THEN barcode ELSE q1
      q3 == IF q2 = << >>
            THEN Trim(Join(Slice(VisibleText(pd), VisibleTokens)))
            ELSE q2
  IN q3

buildSearchQuery(pd) ==
  LET brand   == TrimmedField(Get(pd, "brand"))
      pname   == TrimmedField(Get(pd, "product_name"))
      barcode == TrimmedField(Get(pd, "barcode_or_upc"))
      q1 == Trim(Join(FilterBoolean(<< brand, pname >>)))
      q2 == IF q1 = << >> /\ barcode # << >> THEN barcode ELSE q1
      q3 == IF q2 = << >>
            THEN Trim(Join(Slice(VisibleText(pd), VisibleTokens)))
            ELSE q2
  IN Trim(Prefix \o q3)

---------------------------------------------------------------------------
(* Page text.  A fetched document is a sequence of HTML tokens; the text   *)
(* extracted from it is a sequence of runs [c, n]: n characters of class c, *)
(* where c is " " (whitespace) or "x" (anything else).  Adjacent runs have *)
(* different classes, so the representation of a text is unique.           *)

Run(c, n) == [c |-> c, n |-> n]

HT(t, c, n) == [t |-> t, c |-> c, n |-> n]
ScriptBlock == HT("script", "x", 1)    \* <script ...> ... </script>
StyleBlock  == HT("style", "x", 1)     \* <style ...> ... </style>
Tag         == HT("tag", "x", 1)       \* any other <...>
Nbsp        == HT("ent", " ", 1)       \* &nbsp;
Amp         == HT("ent", "x", 1)       \* &amp; &lt; &gt; &quot; &#39;
Text(c, n)  == HT("text", c, n)        \* n characters of class c

AppendRun(s, r) ==
  IF s # << >> /\ s[Len(s)].c = r.c
  THEN SubSeq(s, 1, Len(s) - 1) \o << Run(r.c, s[Len(s)].n + r.n) >>
  ELSE Append(s, r)

RECURSIVE RunLen(_)
RunLen(s) == IF s = << >> THEN 0 ELSE Head(s).n + RunLen(Tail(s))

\* String.prototype.slice(0, n) on a text
RECURSIVE SliceRuns(_, _)
SliceRuns(s, n) ==
  IF s = << >> \/ n <= 0 THEN << >>
  ELSE IF Head(s).n >= n THEN << Run(Head(s).c, n) >>
  ELSE << Head(s) >> \o SliceRuns(Tail(s), n - Head(s).n)

\* .replace(/\s+/g, " ")
CollapseWs(s) ==
  [ i \in 1..Len(s) |-> IF s[i].c = " " THEN Run(" ", 1) ELSE s[i] ]

\* String.prototype.trim on a text
TrimRuns(s) ==
  LET a == IF s # << >> /\ Head(s).c = " " THEN Tail(s) ELSE s
  IN IF a # << >> /\ a[Len(a)].c = " " THEN SubSeq(a, 1, Len(a) - 1) ELSE a

\* the replace chain of extractTextFromHTML before the whitespace clean-up:
\* script and style blocks vanish, a tag becomes one space, an entity one character
RECURSIVE StripMarkup(_)
StripMarkup(html) ==
  IF html = << >> THEN << >>
  ELSE LET h    == html[Len(html)]
           rest == StripMarkup(SubSeq(html, 1, Len(html) - 1))
       IN IF h.t \in {"script", "style"} THEN rest
          ELSE IF h.t = "tag" THEN AppendRun(rest, Run(" ", 1))
          ELSE AppendRun(rest, Run(h.c, h.n))

\* WebScrapingService.extractTextFromHTML
extractTextFromHTML(html) == TrimRuns(CollapseWs(StripMarkup(html)))

NoPage == [k |-> "null"]

\* scrapeUrl without the `if (!textContent) return null` check
scrapeUrlNoEmptyCheck(url, out, html) ==
  IF out = "throw" THEN [k |-> "null"]
  ELSE IF out = "notok" THEN [k |-> "null"]
  ELSE [k |-> "page", url |-> url,
        content |-> SliceRuns(extractTextFromHTML(html), MaxLength), success |-> TRUE]

\* scrapeUrl without the `.slice(0, maxLength)` of the content
scrapeUrlNoCap(url, out, html) ==
  IF out = "throw" THEN [k |-> "null"]
  ELSE IF out = "notok" THEN [k |-> "null"]
  ELSE LET textContent == extractTextFromHTML(html)
       IN IF textContent = << >> THEN [k |-> "null"]
          ELSE [k |-> "page", url |-> url, content |-> textContent, success |-> TRUE]

\* scrapeUrl whose catch answers with a page made of the error message
scrapeUrlErrorPage(url, out, html) ==
  IF out = "throw"
  THEN [k |-> "page", url |-> url, content |-> << Run("x", 1) >>, success |-> TRUE]
  ELSE IF out = "notok" THEN [k |-> "null"]
  ELSE LET textContent == extractTextFromHTML(html)
       IN IF textContent = << >> THEN [k |-> "null"]
          ELSE [k |-> "page", url |-> url,
                content |-> SliceRuns(textContent, MaxLength), success |-> TRUE]

\* scrapeUrl without its try/catch: the exception of fetch leaves it
scrapeUrlRethrows(url, out, html) ==
  IF out = "throw" THEN [k |-> "thrown"]
  ELSE IF out = "notok" THEN [k |-> "null"]
  ELSE LET textContent == extractTextFromHTML(html)
       IN IF textContent = << >> THEN [k |-> "null"]
          ELSE [k |-> "page", url |-> url,
                content |-> SliceRuns(textContent, MaxLength), success |-> TRUE]

\* WebScrapingService.scrapeUrl(url): `out` is what fetch did, `html` the
\* document at the url.  Every failure is turned into null.
scrapeUrl(url, out, html) ==
  IF out = "throw" THEN NoPage
  ELSE IF out = "notok" THEN NoPage
  ELSE LET textContent == extractTextFromHTML(html)
       IN IF textContent = << >> THEN NoPage
          ELSE [k |-> "page", url |-> url,
                content |-> SliceRuns(textContent, MaxLength), success |-> TRUE]

\* the body of the for-of loop of scrapeMultipleUrls up to the delay
ScrapePush(scraped, result, scrapedContent) ==
  IF scrapedContent.k = "page" /\ scrapedContent.success
  THEN Append(scraped, [title |-> result.title, url |-> result.link,
                        content |-> scrapedContent.content])
  ELSE scraped

\* formatScrapedContentForLLM without the `.slice(0, 2000)` of each content
formatScrapedContentNoCap(scraped, maxResults) ==
  LET top == Slice(scraped, maxResults)
  IN [ i \in 1..Len(top) |->
         [n |-> i, title |-> top[i].title, url |-> top[i].url,
          content |-> TrimRuns(CollapseWs(top[i].content))] ]

\* formatScrapedContentForLLM that writes a placeholder entry for an empty list
formatScrapedContentWithPlaceholder(scraped, maxResults) ==
  IF scraped = << >>
  THEN << [n |-> 1, title |-> 0, url |-> 0, content |-> << >>] >>
  ELSE LET top == Slice(scraped, maxResults)
       IN [ i \in 1..Len(top) |->
              [n |-> i, title |-> top[i].title, url |-> top[i].url,
               content |-> SliceRuns(TrimRuns(CollapseWs(top[i].content)),
                                     BlockContentLen)] ]

\* Utils.formatScrapedContentForLLM(scrapedResults, maxResults): one entry
\* per page, joined by blank lines
formatScrapedContentForLLM(scraped, maxResults) ==
  LET top == Slice(scraped, maxResults)
  IN [ i \in 1..Len(top) |->
         [n |-> i, title |-> top[i].title, url |-> top[i].url,
          content |-> SliceRuns(TrimRuns(CollapseWs(top[i].content)),
                                BlockContentLen)] ]

---------------------------------------------------------------------------
(* The environment: what the external services can answer *)

\* the list BraveSearchService.search maps out of a provider answer with n items
Results(q, n) ==
  [ i \in 1..n |-> [title |-> i, link |-> ((i - 1) % NumLinks) + 1, snippet |-> q] ]

\* a search call throws (network error, non-success status) or answers n items
SearchOutcomes ==
  { [ok |-> FALSE, n |-> 0] } \cup { [ok |-> TRUE, n |-> k] : k \in 0..MaxResults }

FetchOutcomes == {"throw", "notok", "ok"}

\* the document each URL serves
Html(link) ==
  IF link % 3 = 1
    THEN << Tag, Text("x", 2500), Text(" ", 3), Nbsp, Text("x", 700), ScriptBlock, Tag >>
  ELSE IF link % 3 = 2
    THEN << StyleBlock, Text("x", 5), Tag, Amp >>
  ELSE << ScriptBlock, Tag, Text(" ", 2), Nbsp, StyleBlock >>

\* an object with the given fields, the undefined ones left out
MkObj(pn, br, bc, vt, cf) ==
  LET full == [product_name |-> pn, brand |-> br, barcode_or_upc |-> bc,
               visible_text |-> vt, confidence |-> cf]
  IN [ key \in { f \in DOMAIN full : full[f].k # "undefined" } |-> full[key] ]

ProductNames == { Undefined, Null, Str(<< " " >>), Str(<< "a" >>), Str(<< " ", "a" >>),
                  Str(Trim(Prefix)) }
Barcodes     == { Undefined, Str(<< " " >>), Str(<< "0" >>), Str(<< "0", " " >>) }
VisibleTexts == { Undefined, List(<< >>),
                  List(<< << "a" >>, << "b" >>, << "a" >>, << "b" >>, << "0" >> >>) }

\* every attributes object of the model
AttrObjects ==
  { MkObj(pn, br, bc, vt, cf) :
      pn \in ProductNames, br \in { Undefined, Str(<< "b" >>) }, bc \in Barcodes,
      vt \in VisibleTexts, cf \in { Undefined, Str(<< "high" >>) } }

\* the attributes objects a vision reply of the model can carry
VisionObjects ==
  { MkObj(Str(<< "a" >>), Str(<< "b" >>), Undefined, List(<< >>), Str(<< "high" >>)),
    MkObj(Str(<< " ", "a" >>), Null, Str(<< "0", " " >>), Undefined, Undefined),
    MkObj(Str(<< "a" >>), Undefined, Str(<< " " >>), List(<< >>), Undefined),
    MkObj(Null, Str(<< "b" >>), Str(<< "0" >>), Undefined, Str(<< "high" >>)),
    MkObj(Null, Null, Str(<< "0" >>), List(<< >>), Undefined),
    MkObj(Str(<< " " >>), Undefined, Str(<< " " >>),
          List(<< << "a" >>, << "b" >>, << "a" >>, << "b" >>, << "0" >> >>), Undefined),
    EmptyObj }

UnparsableTexts ==
  { << >>, << P >>, << LB, P, RB >>, << LB, M(EmptyObj) >>,
    << LB, M(EmptyObj), RB, P, RB >> }

VisionReplies ==
  { << LB, M(o), RB >> : o \in VisionObjects }
    \cup { << P, LB, M(o), RB, P >> : o \in { EmptyObj } }
    \cup UnparsableTexts

Report      == [status |-> "true", message |-> "null", data |-> "data"]
MimicReport == [error |-> "Failed to parse comprehensive analysis response",
                productData |-> "x", searchQuery |-> "x", searchResults |-> "x"]

SynthesisReplies ==
  { << LB, M(Report), RB >>, << P, LB, M(MimicReport), RB, P >>, << LB, RB >> }
    \cup UnparsableTexts

\* the texts extractJsonFromText is called with on its own: every token
\* sequence up to MaxTextLen, and objects of any depth up to 2 inside prose
Members  == [product_name |-> Str(<< "a" >>)]
Tokens   == { LB, RB, P, M(Members), K("data") }
Prose    == { << >>, << P >> }
WellFormed ==
  { << LB, RB >>, << LB, M(Members), RB >>,
    << LB, K("data"), LB, M(Members), RB, RB >>,
    << LB, M(Members), K("data"), LB, RB, RB >>,
    << LB, K("data"), LB, K("data"), LB, RB, RB, M(Members), RB >> }
Texts ==
  UNION { [1..n -> Tokens] : n \in 0..MaxTextLen }
    \cup { pre \o o \o post : pre \in Prose, o \in WellFormed, post \in Prose }

Bodies == { [imageUrl |-> Str(<< "u" >>)], [imageUrl |-> Str(<< >>)], EmptyObj }

---------------------------------------------------------------------------
(* ImageAnalysisService.performWebSearch: the decisions *)

Pname(pd)   == TrimmedField(Get(pd, "product_name"))
Barcode(pd) == TrimmedField(Get(pd, "barcode_or_upc"))

\* if (pname && pname !== primaryQuery)
FallbackApplies(q, pd) == Pname(pd) # << >> /\ Pname(pd) # q

\* the fallback query built from the field as it came, not from the trimmed name
FallbackQueryUntrimmed(pd) ==
  (IF Get(pd, "product_name").k = "str" THEN Get(pd, "product_name").s ELSE << >>)
    \o FallbackSuffix

\* `${pname} nutrition facts ingredients`
FallbackQuery(pd) == Pname(pd) \o FallbackSuffix

\* a barcode step taken whenever a barcode is set
BarcodeAppliesAlways(pd, all) == Barcode(pd) # << >>

\* if (barcode && allResults.length === 0)
BarcodeApplies(pd, all) == Barcode(pd) # << >> /\ Len(all) = 0

\* the barcode call made with the label of its group instead of the barcode
BarcodeQueryLabelled(pd) == Barcode(pd) \o BarcodeLabelSuffix

\* BraveSearchService.search(barcode, 8)
BarcodeQuery(pd) == Barcode(pd)

\* the barcode call left outside any try block
CatchesNoBarcode(attempt) == attempt \in {"primary", "fallback"}

\* the attempts whose call sits in a try block with a catch of its own
Catches(attempt) == attempt \in {"primary", "fallback", "barcode"}

\* allResults.push({ query, results: await BraveSearchService.search(q, 8) })
PushGroup(all, label, q, out) ==
  Append(all, [query |-> label, results |-> Results(q, out.n)])

\* a flatMap that keeps the first 6 results of each group
RECURSIVE FlatMapCapped(_)
FlatMapCapped(all) ==
  IF all = << >> THEN << >>
  ELSE Slice(Head(all).results, TopResults) \o FlatMapCapped(Tail(all))

\* allResults.flatMap(group => group.results || [])
RECURSIVE FlatMap(_)
FlatMap(all) ==
  IF all = << >> THEN << >> ELSE Head(all).results \o FlatMap(Tail(all))

---------------------------------------------------------------------------
(* The route: the responses *)

NoResponse == [status |-> 0, body |-> EmptyObj]

BadRequest == [status |-> 400, body |-> [error |-> "imageUrl is required"]]

\* the catch of the route that logs the error and sends nothing
InternalErrorUnsent == NoResponse

\* the catch of the route answering without res.status(500)
InternalErrorNoStatus ==
  [status |-> 200, body |-> [error |-> "internal_error", details |-> "message"]]

InternalError ==
  [status |-> 500, body |-> [error |-> "internal_error", details |-> "message"]]

\* the envelope without the intermediate state
PartialBodyBare(pd, q, results) ==
  [error |-> "Failed to parse comprehensive analysis response"]

PartialBody(pd, q, results) ==
  [error |-> "Failed to parse comprehensive analysis response",
   productData |-> pd, searchQuery |-> q,
   searchResults |-> Slice(results, TopResults)]

PartialEnvelope(pd, q, results) ==
  [status |-> 500, body |-> PartialBody(pd, q, results)]

\* Math.min(5, searchResults.length)
ScrapedPagesCount(results, scraped) == Min(5, Len(results))

DebugBlock(q, results, scraped) ==
  [searchQuery |-> q, searchResultsCount |-> Len(results),
   scrapedPagesCount |-> ScrapedPagesCount(results, scraped)]

\* the report returned as it is, without the debug block
SuccessBodyNoDebug(report, q, results, scraped) == report

\* { ...comprehensiveResult, debug: {...} }
SuccessBody(report, q, results, scraped) ==
  ("debug" :> DebugBlock(q, results, scraped)) @@ report

FullReport(report, q, results, scraped) ==
  [status |-> 200, body |-> SuccessBody(report, q, results, scraped)]

\* a validation that lets every body through
IsValidAnyBody(b) == TRUE

\* if (!body.imageUrl)
IsValid(b) ==
  LET u == Get(b, "imageUrl") IN u.k = "str" /\ u.s # << >>

Ev(ev, at, arg, out) == [ev |-> ev, at |-> at, arg |-> arg, out |-> out]

---------------------------------------------------------------------------
(* The food-analysis path: analyzeFoodImage and the web search service it   *)
(* enhances its analysis with.  `food` holds the settings the service was   *)
(* created with (enabled, google, client) and the locals of analyzeFoodImage *)
(* (analysis, webNutritionData, ingredientData, allergenData); `input` is   *)
(* the image URL, `output` what analyzeFoodImage returned or threw,         *)
(* `allResults` and `searchResults` the locals of the search in progress,   *)
(* `idx` the ingredient being searched (0 for the food item itself).        *)

\* searchQuery of performWebSearch and of searchAllergenData
NutritionSuffix == << " ", "nutrition", " ", "facts", " ", "label" >>
AllergenSuffix  == << " ", "allergens" >>

\* performFallbackSearch that finds nothing
performFallbackSearchNone(query) == << >>

\* performFallbackSearch: the single simulated result
performFallbackSearch(query) ==
  << [title |-> query, snippet |-> query, link |-> query, source |-> "fallback"] >>

\* WebSearchService.performWebSearch(query) once the Google step, if any, is
\* over (`asked`: the step was taken, google.enabled && google.apiKey; `out`:
\* what the call did): the items of performGoogleSearch mapped to results,
\* nothing when it threw or answered no items, and the fallback when there
\* are no results
WebResults(query, asked, out) ==
  LET googleResults ==
        IF asked /\ out.ok
        THEN [ i \in 1..out.n |-> [title |-> << i >>, snippet |-> << i >>,
                                   link |-> << i >>, source |-> "google"] ]
        ELSE << >>
  IN IF Len(googleResults) = 0 THEN performFallbackSearch(query) ELSE googleResults

\* createFallbackNutritionData
FallbackNutritionData ==
  [ingredients |-> List(<< >>), allergens |-> List(<< >>),
   confidence |-> Str(<< "Low" >>), enhanced |-> [k |-> "false"]]

\* the vision reply and the extraction reply are parsed the same way:
\* text.match(/\{[\s\S]*\}/), JSON.parse of the match, or of the whole text
\* when nothing matches; the texts of the model hold no JSON outside braces
ParseReply(text) ==
  LET lbs == { i \in 1..Len(text) : text[i].t = "lb" }
      rbs == { i \in 1..Len(text) : text[i].t = "rb" /\ \E j \in lbs : j < i }
  IN IF lbs = {} \/ rbs = {} THEN NoParse
     ELSE JSONParse(SubSeq(text, MinOf(lbs), MaxOf(rbs)))

\* extractNutritionDataWithGPT after its completion call: the parsed object
\* with enhanced: true, the fallback data when the call threw or the reply
\* does not parse
NutritionDataOf(reply) ==
  IF ~ reply.ok THEN FallbackNutritionData
  ELSE LET r == ParseReply(reply.text)
       IN IF r.k # "obj" THEN FallbackNutritionData
          ELSE ("enhanced" :> [k |-> "true"]) @@ r.o

\* the object analyzeFoodImage returns when the vision reply does not parse
UnknownAnalysis ==
  [foodItem |-> Str(<< "Unknown" >>), ingredients |-> List(<< >>),
   allergens |-> List(<< >>), confidence |-> Str(<< "Low" >>),
   healthInsights |-> Str(<< "Analysis failed - unable to parse response" >>)]

Returned(v) == [k |-> "returned", v |-> v]

\* an outer catch that throws the error it caught again
FoodAnalysisRethrown(message) == [k |-> "thrown", message |-> message]

\* throw new Error(`Food analysis failed: ${error.message}`)
FoodAnalysisFailed(message) ==
  [k |-> "thrown", message |-> << "Food analysis failed:", " " >> \o message]

\* if (webSearchService.enabled && analysis.foodItem && analysis.foodItem !== "Unknown")
EnhancementApplies(enabled, analysis) ==
  LET item == Get(analysis, "foodItem")
  IN enabled /\ item.k = "str" /\ item.s # << >> /\ item.s # << "Unknown" >>

\* searchIngredientData: ingredients.slice(0, 5), nothing when the list is
\* missing or empty
IngredientsToProcess(analysis) ==
  LET l == Get(analysis, "ingredients")
  IN IF l.k = "list" THEN Slice(l.l, 5) ELSE << >>

\* obj.field = value
With(o, field, value) == (field :> value) @@ o

\* [...new Set([...a, ...b])]
RECURSIVE Union2(_, _)
Union2(a, b) ==
  IF b = << >> THEN a
  ELSE IF \E i \in 1..Len(a) : a[i] = Head(b) THEN Union2(a, Tail(b))
  ELSE Union2(Append(a, Head(b)), Tail(b))

\* the statements of analyzeFoodImage between the three searches and the
\* return: the web data merged into the analysis, one field after the other.
\* Reading .length of a missing list and spreading a missing list throw; the
\* analysis keeps what was assigned before.  (The objects of the model carry
\* no nutritionFacts, dietaryInfo or healthInsights from the web; merging
\* these cannot throw.)
Merge(analysis, wnd, ingredientData, allergenData) ==
  LET enhanced == wnd.k = "obj" /\ Get(wnd.o, "enhanced").k = "true"
      wi == IF enhanced THEN Get(wnd.o, "ingredients") ELSE Undefined
      wa == IF enhanced THEN Get(wnd.o, "allergens") ELSE Undefined
      wc == IF enhanced THEN Get(wnd.o, "confidence") ELSE Undefined
      s1 == IF enhanced THEN With(analysis, "webSearchData", wnd) ELSE analysis
      t2 == wi.k = "list" /\ Get(s1, "ingredients").k \in { "undefined", "null" }
      s2 == IF wi.k = "list" /\ ~ t2 /\ Get(s1, "ingredients").k = "list"
               /\ Len(wi.l) > Len(Get(s1, "ingredients").l)
            THEN With(s1, "ingredients", wi) ELSE s1
      t3 == ~ t2 /\ wa.k = "list" /\ Len(wa.l) > 0
               /\ Get(s2, "allergens").k \in { "undefined", "null" }
      s3 == IF ~ t2 /\ ~ t3 /\ wa.k = "list" /\ Len(wa.l) > 0
               /\ Get(s2, "allergens").k = "list"
            THEN With(s2, "allergens", List(Union2(Get(s2, "allergens").l, wa.l)))
            ELSE s2
      s4 == IF wc = Str(<< "High" >>) THEN With(s3, "confidence", wc) ELSE s3
      s5 == IF ingredientData.k = "obj" THEN With(s4, "ingredientDetails", ingredientData)
            ELSE s4
      s6 == IF allergenData # << >> THEN With(s5, "enhancedAllergens", List(allergenData))
            ELSE s5
  IN IF t2 THEN [analysis |-> s1, thrown |-> TRUE]
     ELSE IF t3 THEN [analysis |-> s2, thrown |-> TRUE]
     ELSE [analysis |-> s6, thrown |-> FALSE]

\* what the Google call can do: throw, or answer n items
GoogleOutcomes ==
  { [ok |-> FALSE, n |-> 0] } \cup { [ok |-> TRUE, n |-> k] : k \in 0..MaxItems }

\* the vision replies of the model, and the analyses they can carry
FoodTexts ==
  LET FoodAnalyses ==
  { [foodItem |-> Str(<< "apple" >>), ingredients |-> List(<< << "a" >> >>),
     allergens |-> List(<< >>), confidence |-> Str(<< "Medium" >>)],
    [foodItem |-> Str(<< "apple" >>)],
    [foodItem |-> Str(<< "apple" >>), ingredients |-> List(<< >>)],
    [foodItem |-> Str(<< "Unknown" >>), ingredients |-> List(<< >>),
     allergens |-> List(<< >>)],
    EmptyObj }
  IN { << LB, M(a), RB >> : a \in FoodAnalyses } \cup { << >>, << P >>, << LB, P, RB >> }

\* the extraction replies of the model, and the objects they can carry
ExtractionTexts ==
  LET WebData ==
  { [ingredients |-> List(<< << "a" >>, << "b" >> >>),
     allergens |-> List(<< << "nuts" >> >>), confidence |-> Str(<< "High" >>)],
    EmptyObj }
  IN { << LB, M(w), RB >> : w \in WebData } \cup { << P >> }

---------------------------------------------------------------------------
(* State machine *)

\* what an LLM call can do: throw, or return a text
Replies(texts) ==
  { [ok |-> FALSE, text |-> << >>] } \cup { [ok |-> TRUE, text |-> t] : t \in texts }

OutName(o) == IF o.ok THEN "ok" ELSE "throw"

\* ComprehensiveAnalysisService.analyzeComprehensive: searchResults.slice(0, 6)
TopOf(results) == Slice(results, TopResults)

\* scrapeMultipleUrls without the slice: every result it is given is fetched
UrlsOfAll(top, maxUrls) == top

\* WebScrapingService.scrapeMultipleUrls: searchResults.slice(0, maxUrls)
UrlsOf(top, maxUrls) == Slice(top, maxUrls)

\* no other request is in progress
Alone == [pc |-> "none"]

Concurrent == other # Alone

\* what the services answer.  With two requests in progress the answers are
\* drawn from fewer cases: a reply with attributes, an unparsable one, lists
\* of at most MaxTwoResults results, a page or a failed fetch, a report or an
\* unparsable reply.
TwoVisionTexts ==
  { << LB, M(MkObj(Str(<< " ", "a" >>), Null, Str(<< "0", " " >>), Undefined, Undefined)),
       RB >>,
    << >> }
TwoSynthesisTexts == { << LB, M(Report), RB >>, << >> }

VisionTexts    == IF Concurrent THEN TwoVisionTexts ELSE VisionReplies
SynthesisTexts == IF Concurrent THEN TwoSynthesisTexts ELSE SynthesisReplies
SearchAnswers  ==
  IF Concurrent THEN { o \in SearchOutcomes : o.n <= MaxTwoResults } ELSE SearchOutcomes
FetchAnswers   == IF Concurrent THEN {"throw", "ok"} ELSE FetchOutcomes

\* analyzeFoodImage is not running
NoFood == << >>

\* a request to the route has arrived
Arrived ==
  /\ mode = "pipeline"
  /\ pc = "start"
  /\ body \in Bodies
  /\ productData = EmptyObj
  /\ primaryQuery = << >>
  /\ allResults = << >>
  /\ searchResults = << >>
  /\ topResults = << >>
  /\ urlsToScrape = << >>
  /\ idx = 1
  /\ scrapedResults = << >>
  /\ scrapedBlock = << >>
  /\ trace = << >>
  /\ response = NoResponse
  /\ inFlight = << >>
  /\ input = << >>
  /\ output = << >>
  /\ food = NoFood

Init ==
  /\ Arrived
  /\ other = Alone

\* performWebSearch called on its own, with any query and any attributes
InitSearch ==
  /\ mode = "search"
  /\ pc = "search_primary"
  /\ body = EmptyObj
  /\ productData \in AttrObjects
  /\ primaryQuery \in { buildSearchQuery(productData), << "a" >>, << " ", "a" >> }
  /\ allResults = << >>
  /\ searchResults = << >>
  /\ topResults = << >>
  /\ urlsToScrape = << >>
  /\ idx = 1
  /\ scrapedResults = << >>
  /\ scrapedBlock = << >>
  /\ trace = << >>
  /\ response = NoResponse
  /\ inFlight = << >>
  /\ input = << >>
  /\ output = << >>
  /\ other = Alone
  /\ food = NoFood

\* a search call returned: the query, whether it threw, and the number of
\* results the provider answered
SearchEv(at, q, out) ==
  [ev |-> "search", at |-> at, arg |-> q, out |-> OutName(out), n |-> out.n]

\* performWebSearch goes on to its next await; it reads its two arguments
\* and assigns to neither
Goto(label, all) ==
  /\ pc' = label
  /\ allResults' = all
  /\ UNCHANGED << primaryQuery, productData >>
  /\ UNCHANGED << searchResults, topResults, urlsToScrape, idx, scrapedResults,
                  response >>

\* performWebSearch that writes the trimmed strings back into the attributes
\* object it was given
ReturnTrimmed(all) ==
  /\ allResults' = all
  /\ searchResults' = FlatMap(all)
  /\ IF mode = "pipeline"
     THEN /\ pc' = "scrape"
          /\ topResults' = TopOf(searchResults')
          /\ urlsToScrape' = UrlsOf(topResults', MaxUrls)
     ELSE /\ pc' = "search_done"
          /\ UNCHANGED << topResults, urlsToScrape >>
  /\ idx' = 1
  /\ scrapedResults' = << >>
  /\ response' = response
  /\ productData' =
       [ key \in DOMAIN productData |->
           IF productData[key].k = "str"
           THEN Str(Trim(productData[key].s)) ELSE productData[key] ]
  /\ primaryQuery' = primaryQuery

\* performWebSearch returns; the route calls analyzeComprehensive, which
\* enters the loop of scrapeMultipleUrls
Return(all) ==
  /\ allResults' = all
  /\ searchResults' = FlatMap(all)
  /\ IF mode = "pipeline"
     THEN /\ pc' = "scrape"
          /\ topResults' = TopOf(searchResults')
          /\ urlsToScrape' = UrlsOf(topResults', MaxUrls)
     ELSE /\ pc' = "search_done"
          /\ UNCHANGED << topResults, urlsToScrape >>
  /\ idx' = 1
  /\ scrapedResults' = << >>
  /\ response' = response
  /\ UNCHANGED << primaryQuery, productData >>

\* an exception leaves performWebSearch; the catch of the route answers it
Throw ==
  /\ pc' = IF mode = "pipeline" THEN "done" ELSE "search_threw"
  /\ response' = IF mode = "pipeline" THEN InternalError ELSE response
  /\ UNCHANGED << primaryQuery, productData >>
  /\ UNCHANGED << allResults, searchResults, topResults, urlsToScrape, idx,
                  scrapedResults >>

\* performWebSearch that makes the barcode call at once, without the delay
AfterFallbackNoDelay(all) ==
  IF BarcodeApplies(productData, all) THEN Goto("barcode_search", all) ELSE Return(all)

\* performWebSearch that goes back to the primary query after the product-name step
AfterFallbackRetry(all) == Goto("search_primary", all)

\* after the product-name step: the barcode step or the return
AfterFallback(all) ==
  IF BarcodeApplies(productData, all) THEN Goto("barcode_delay", all) ELSE Return(all)

\* analysis.foodItem, and what searchNutritionData is searching for: the
\* food item, or the idx-th ingredient of searchIngredientData
FoodItem == Get(food.analysis, "foodItem").s
Site     == IF idx = 0 THEN "nutrition" ELSE "ingredient"
Item     == IF idx = 0 THEN FoodItem ELSE IngredientsToProcess(food.analysis)[idx]

Call(ev, at, arg) == [ev |-> ev, at |-> at, arg |-> arg]

\* the external call the handler makes at its position: the vision call of
\* analyzeProductImage, the three BraveSearchService.search calls of
\* performWebSearch, the fetch of scrapeUrl, the synthesis call
NextCall ==
  CASE pc = "vision" -> Call("vision", "image", Get(body, "imageUrl"))
    [] pc = "search_primary" -> Call("search", "primary", primaryQuery)
    [] pc = "fallback_search" -> Call("search", "fallback", FallbackQuery(productData))
    [] pc = "barcode_search" -> Call("search", "barcode", BarcodeQuery(productData))
    [] pc = "scrape" /\ idx <= Len(urlsToScrape) ->
         Call("fetch", idx, urlsToScrape[idx].link)
    [] pc = "food_validate" -> Call("head", "image", input)
    [] pc = "food_vision" -> Call("vision", "food", input)
    [] pc = "nutrition_google" -> Call("google", Site, Item \o NutritionSuffix)
    [] pc = "nutrition_gpt" -> Call("extraction", Site, Item)
    [] pc = "allergen_google" ->
         Call("google", "allergen", FoodItem \o AllergenSuffix \o NutritionSuffix)
    [] pc = "allergen_gpt" -> Call("extraction", "allergen", FoodItem)
    [] pc = "scrape" /\ idx > Len(urlsToScrape) ->
         Call("synthesis", "report", formatScrapedContentForLLM(scrapedResults, 5))

CallSites ==
  { "vision", "search_primary", "fallback_search", "barcode_search", "scrape",
    "food_validate", "food_vision", "nutrition_google", "nutrition_gpt",
    "allergen_google", "allergen_gpt" }

\* a handler that does not await: it may make a call while one is in flight
CanStartAlways(calls) == TRUE

\* every call is awaited: the handler makes no call while one is in flight
CanStart(calls) == calls = << >>

\* the call of kind ev has been started and is the one awaited
Awaited(ev) == inFlight # << >> /\ inFlight[1].ev = ev

\* the handler starts the external call of its position and is suspended;
\* analyzeComprehensive formats the context block before the synthesis call
StartCall ==
  /\ pc \in CallSites
  /\ CanStart(inFlight)
  /\ inFlight' = Append(inFlight, NextCall)
  /\ scrapedBlock' = IF NextCall.ev = "synthesis" THEN NextCall.arg ELSE scrapedBlock
  /\ UNCHANGED << mode, pc, body, productData, primaryQuery, allResults,
                  searchResults, topResults, urlsToScrape, idx, scrapedResults, trace,
                  response, input, output, other, food >>

Validate ==
  /\ pc = "start"
  /\ IF IsValid(body)
     THEN pc' = "vision" /\ response' = response
     ELSE pc' = "done" /\ response' = BadRequest
  /\ UNCHANGED << mode, body, productData, primaryQuery, allResults,
                  searchResults, topResults, urlsToScrape, idx, scrapedResults, scrapedBlock,
                  trace >>
  /\ UNCHANGED << inFlight, input, output, other, food >>

AnalyzeProductImage ==
  /\ pc = "vision"
  /\ Awaited("vision")
  /\ \E reply \in Replies(VisionTexts) :
       /\ trace' = Append(trace, Ev("vision", "image", reply.text, OutName(reply)))
       /\ IF reply.ok
          THEN /\ productData' = ProductDataOf(reply.text)
               /\ primaryQuery' = buildSearchQuery(productData')
               /\ pc' = "search_primary"
               /\ response' = response
          ELSE /\ pc' = "done"
               /\ response' = InternalError
               /\ UNCHANGED << productData, primaryQuery >>
  /\ UNCHANGED << mode, body, allResults, searchResults, topResults, urlsToScrape, idx,
                  scrapedResults, scrapedBlock >>
  /\ inFlight' = Tail(inFlight)
  /\ UNCHANGED << input, output, other, food >>

\* performWebSearch that takes a primary answer with no results for a failed
\* attempt and goes on with the later steps
PrimarySearchEmptyFails ==
  /\ pc = "search_primary"
  /\ Awaited("search")
  /\ \E out \in SearchAnswers :
       /\ trace' = Append(trace, SearchEv("primary", primaryQuery, out))
       /\ IF out.ok /\ out.n > 0
          THEN Return(PushGroup(allResults, primaryQuery, primaryQuery, out))
          ELSE IF ~ out.ok /\ ~ Catches("primary") THEN Throw
          ELSE IF FallbackApplies(primaryQuery, productData)
          THEN Goto("fallback_delay", allResults)
          ELSE AfterFallback(allResults)
  /\ UNCHANGED << mode, body, scrapedBlock >>
  /\ inFlight' = Tail(inFlight)
  /\ UNCHANGED << input, output, other, food >>

\* the primary call of performWebSearch returns

PrimarySearch ==
  /\ pc = "search_primary"
  /\ Awaited("search")
  /\ \E out \in SearchAnswers :
       /\ trace' = Append(trace, SearchEv("primary", primaryQuery, out))
       /\ IF out.ok
          THEN Return(PushGroup(allResults, primaryQuery, primaryQuery, out))
          ELSE IF ~ Catches("primary") THEN Throw
          ELSE IF FallbackApplies(primaryQuery, productData)
          THEN Goto("fallback_delay", allResults)
          ELSE AfterFallback(allResults)
  /\ UNCHANGED << mode, body, scrapedBlock >>
  /\ inFlight' = Tail(inFlight)
  /\ UNCHANGED << input, output, other, food >>

FallbackDelay ==
  /\ pc = "fallback_delay"
  /\ trace' = Append(trace, Ev("delay", "fallback", FallbackDelayMs, "ok"))
  /\ pc' = "fallback_search"
  /\ UNCHANGED << mode, body, productData, primaryQuery, allResults,
                  searchResults, topResults, urlsToScrape, idx, scrapedResults, scrapedBlock,
                  response >>
  /\ UNCHANGED << inFlight, input, output, other, food >>

FallbackSearch ==
  /\ pc = "fallback_search"
  /\ Awaited("search")
  /\ \E out \in SearchAnswers :
       LET q == FallbackQuery(productData) IN
       /\ trace' = Append(trace, SearchEv("fallback", q, out))
       /\ IF out.ok THEN AfterFallback(PushGroup(allResults, q, q, out))
          ELSE IF ~ Catches("fallback") THEN Throw
          ELSE AfterFallback(allResults)
  /\ UNCHANGED << mode, body, scrapedBlock >>
  /\ inFlight' = Tail(inFlight)
  /\ UNCHANGED << input, output, other, food >>

BarcodeDelay ==
  /\ pc = "barcode_delay"
  /\ trace' = Append(trace, Ev("delay", "barcode", FallbackDelayMs, "ok"))
  /\ pc' = "barcode_search"
  /\ UNCHANGED << mode, body, productData, primaryQuery, allResults,
                  searchResults, topResults, urlsToScrape, idx, scrapedResults, scrapedBlock,
                  response >>
  /\ UNCHANGED << inFlight, input, output, other, food >>

BarcodeSearch ==
  /\ pc = "barcode_search"
  /\ Awaited("search")
  /\ \E out \in SearchAnswers :
       LET q == BarcodeQuery(productData) IN
       /\ trace' = Append(trace, SearchEv("barcode", q, out))
       /\ IF out.ok
          THEN Return(PushGroup(allResults, Barcode(productData) \o BarcodeLabelSuffix,
                                q, out))
          ELSE IF ~ Catches("barcode") THEN Throw
          ELSE Return(allResults)
  /\ UNCHANGED << mode, body, scrapedBlock >>
  /\ inFlight' = Tail(inFlight)
  /\ UNCHANGED << input, output, other, food >>

\* what scrapeUrl returns for each URL of the model and each thing its fetch
\* can do
Scraped ==
  [ link \in 1..NumLinks |->
      [ out \in FetchOutcomes |-> scrapeUrl(link, out, Html(link)) ] ]

\* one turn of the loop of scrapeMultipleUrls up to its delay: the fetch of
\* scrapeUrl returns.  An exception that left scrapeUrl would be caught by
\* the try of the loop body, which skips the push and the delay.
ScrapeOne ==
  /\ pc = "scrape"
  /\ idx <= Len(urlsToScrape)
  /\ Awaited("fetch")
  /\ \E out \in FetchAnswers :
       LET result == urlsToScrape[idx]
           scrapedContent == Scraped[result.link][out]
       IN /\ trace' = Append(trace, Ev("fetch", idx, result.link, out))
          /\ IF scrapedContent.k = "thrown"
             THEN /\ scrapedResults' = scrapedResults
                  /\ idx' = idx + 1
                  /\ pc' = "scrape"
             ELSE /\ scrapedResults' = ScrapePush(scrapedResults, result, scrapedContent)
                  /\ idx' = idx
                  /\ pc' = "scrape_delay"
  /\ UNCHANGED << mode, body, productData, primaryQuery, allResults,
                  searchResults, topResults, urlsToScrape, scrapedBlock, response >>
  /\ inFlight' = Tail(inFlight)
  /\ UNCHANGED << input, output, other, food >>

ScrapeDelay ==
  /\ pc = "scrape_delay"
  /\ trace' = Append(trace, Ev("delay", "scrape", ScrapeDelayMs, "ok"))
  /\ idx' = idx + 1
  /\ pc' = "scrape"
  /\ UNCHANGED << mode, body, productData, primaryQuery, allResults,
                  searchResults, topResults, urlsToScrape, scrapedResults, scrapedBlock,
                  response >>
  /\ UNCHANGED << inFlight, input, output, other, food >>

\* scrapeMultipleUrls returns; analyzeComprehensive formats the block, makes
\* the synthesis call and extracts the reply; the route answers
Synthesize ==
  /\ pc = "scrape"
  /\ idx > Len(urlsToScrape)
  /\ Awaited("synthesis")
  /\ \E reply \in Replies(SynthesisTexts) :
       /\ trace' = Append(trace, Ev("synthesis", "report", reply.text, OutName(reply)))
       /\ response' =
            IF ~ reply.ok THEN InternalError
            ELSE LET comprehensiveResult == extractJsonFromText(reply.text)
                 IN IF comprehensiveResult.k # "obj"
                    THEN PartialEnvelope(productData, primaryQuery, searchResults)
                    ELSE FullReport(comprehensiveResult.o, primaryQuery,
                                    searchResults, scrapedResults)
  /\ pc' = "done"
  /\ UNCHANGED << mode, body, productData, primaryQuery, allResults,
                  searchResults, topResults, urlsToScrape, idx, scrapedResults, scrapedBlock >>
  /\ inFlight' = Tail(inFlight)
  /\ UNCHANGED << input, output, other, food >>

Next ==
  \/ StartCall
  \/ Validate
  \/ AnalyzeProductImage
  \/ PrimarySearch
  \/ FallbackDelay
  \/ FallbackSearch
  \/ BarcodeDelay
  \/ BarcodeSearch
  \/ ScrapeOne
  \/ ScrapeDelay
  \/ Synthesize

Spec == Init /\ [][Next]_vars

NextSearch ==
  \/ StartCall
  \/ PrimarySearch
  \/ FallbackDelay
  \/ FallbackSearch
  \/ BarcodeDelay
  \/ BarcodeSearch

SpecSearch == InitSearch /\ [][NextSearch]_vars

\* the locals of the request that is running
Locals ==
  [pc |-> pc, body |-> body, productData |-> productData,
   primaryQuery |-> primaryQuery, allResults |-> allResults,
   searchResults |-> searchResults, topResults |-> topResults,
   urlsToScrape |-> urlsToScrape, idx |-> idx, scrapedResults |-> scrapedResults,
   scrapedBlock |-> scrapedBlock, trace |-> trace, response |-> response,
   inFlight |-> inFlight]

\* the locals of a request that has just arrived
StartOf(b) ==
  [pc |-> "start", body |-> b, productData |-> EmptyObj,
   primaryQuery |-> << >>, allResults |-> << >>,
   searchResults |-> << >>, topResults |-> << >>,
   urlsToScrape |-> << >>, idx |-> 1, scrapedResults |-> << >>,
   scrapedBlock |-> << >>, trace |-> << >>, response |-> NoResponse,
   inFlight |-> << >>]

\* a module where the list of result groups is one binding for all requests
SharedVarsAllResults == { "allResults" }

\* the bindings that outlive a request and that a handler assigns to: the
\* module has config, app and openAIClient, all const and only read
SharedVars == { }

\* what the request that resumes finds in a binding: its own value, or the
\* value the other request left there when the binding is shared
Seen(name, left, own) == IF name \in SharedVars THEN left ELSE own

\* two requests to the route, the second not yet started
InitTwo ==
  /\ Arrived
  /\ \E b \in Bodies : other = StartOf(b)

\* the running request is suspended at its await and the other one resumes
Switch ==
  /\ Concurrent
  /\ pc' = Seen("pc", pc, other.pc)
  /\ body' = Seen("body", body, other.body)
  /\ productData' = Seen("productData", productData, other.productData)
  /\ primaryQuery' = Seen("primaryQuery", primaryQuery, other.primaryQuery)
  /\ allResults' = Seen("allResults", allResults, other.allResults)
  /\ searchResults' = Seen("searchResults", searchResults, other.searchResults)
  /\ topResults' = Seen("topResults", topResults, other.topResults)
  /\ urlsToScrape' = Seen("urlsToScrape", urlsToScrape, other.urlsToScrape)
  /\ idx' = Seen("idx", idx, other.idx)
  /\ scrapedResults' = Seen("scrapedResults", scrapedResults, other.scrapedResults)
  /\ scrapedBlock' = Seen("scrapedBlock", scrapedBlock, other.scrapedBlock)
  /\ trace' = other.trace
  /\ response' = Seen("response", response, other.response)
  /\ inFlight' = other.inFlight
  /\ other' = Locals
  /\ UNCHANGED << mode, input, output, food >>

NextTwo ==
  \/ StartCall
  \/ Validate
  \/ AnalyzeProductImage
  \/ PrimarySearch
  \/ FallbackDelay
  \/ FallbackSearch
  \/ BarcodeDelay
  \/ BarcodeSearch
  \/ ScrapeOne
  \/ ScrapeDelay
  \/ Synthesize
  \/ Switch

SpecTwo == InitTwo /\ [][NextTwo]_vars

\* the variables of the pipeline, which a function called on its own leaves alone
Idle ==
  /\ body = EmptyObj
  /\ productData = EmptyObj
  /\ primaryQuery = << >>
  /\ allResults = << >>
  /\ searchResults = << >>
  /\ topResults = << >>
  /\ urlsToScrape = << >>
  /\ idx = 1
  /\ scrapedResults = << >>
  /\ scrapedBlock = << >>
  /\ trace = << >>
  /\ response = NoResponse
  /\ inFlight = << >>
  /\ other = Alone
  /\ food = NoFood

\* buildSearchQuery called on its own, with any attributes object
InitQuery ==
  /\ mode = "query"
  /\ pc = "query_start"
  /\ input \in AttrObjects
  /\ output = << >>
  /\ Idle

\* buildSearchQuery is applied to the argument, a first and a second time
BuildQuery ==
  /\ pc \in {"query_start", "query_done"}
  /\ output' = buildSearchQuery(input)
  /\ pc' = IF pc = "query_start" THEN "query_done" ELSE "query_again"
  /\ UNCHANGED << mode, body, productData, primaryQuery, allResults,
                  searchResults, topResults, urlsToScrape, idx, scrapedResults, scrapedBlock,
                  trace, response, inFlight, input, other, food >>

SpecQuery == InitQuery /\ [][BuildQuery]_vars

\* extractJsonFromText called on its own, with any text
InitExtract ==
  /\ mode = "extract"
  /\ pc = "extract_start"
  /\ input \in Texts
  /\ output = << >>
  /\ Idle

\* extractJsonFromText is applied to the argument, a first and a second time
ExtractJson ==
  /\ pc \in {"extract_start", "extract_done"}
  /\ output' = extractJsonFromText(input)
  /\ pc' = IF pc = "extract_start" THEN "extract_done" ELSE "extract_again"
  /\ UNCHANGED << mode, body, productData, primaryQuery, allResults,
                  searchResults, topResults, urlsToScrape, idx, scrapedResults, scrapedBlock,
                  trace, response, inFlight, input, other, food >>

SpecExtract == InitExtract /\ [][ExtractJson]_vars

\* the timeout each kind of call is made with, in ms; 0 is none.
\* BraveSearchService.search calls fetch(url, { headers }), scrapeUrl calls
\* fetch(url, { headers, timeout: 10000 }).
SearchTimeoutMs == 0
FetchTimeoutMs  == 10000

\* performWebSearch with what is certain to happen: the handler makes its
\* next call, a timer that was set fires, and a call made with a timeout
\* ends, by its answer or by the timeout.  A call made without a timeout ends
\* only if the provider answers or the connection fails.
SearchFairness ==
  /\ WF_vars(StartCall)
  /\ WF_vars(FallbackDelay)
  /\ WF_vars(BarcodeDelay)
  /\ SearchTimeoutMs > 0
     => WF_vars(PrimarySearch) /\ WF_vars(FallbackSearch) /\ WF_vars(BarcodeSearch)

SpecSearchFair == InitSearch /\ [][NextSearch]_vars /\ SearchFairness

\* the route when every external call ends: the handler makes its next call,
\* a timer that was set fires, and every call that was made returns or
\* throws.  The handler is sequential, one step at most is possible at any
\* time, so that it is enough to say that a possible step is taken.
RouteFairness == WF_vars(Next)

SpecRouteFair == Init /\ [][Next]_vars /\ RouteFairness

\* either function called on its own
InitPure == InitQuery \/ InitExtract

NextPure ==
  \/ BuildQuery
  \/ ExtractJson

SpecPure == InitPure /\ [][NextPure]_vars

---------------------------------------------------------------------------
(* analyzeFoodImage called on its own *)

\* analyzeFoodImage is entered; the service was created with any settings
\* (enabled, the Google step configured) and an OpenAI client is configured
\* or not
InitFood ==
  /\ mode = "food"
  /\ pc = "food_validate"
  /\ input = << "u" >>
  /\ output = << >>
  /\ food \in { [enabled |-> e, google |-> g, client |-> c,
                 analysis |-> EmptyObj, webNutritionData |-> Null,
                 ingredientData |-> Null, allergenData |-> Null,
                 webSearchError |-> FALSE] :
                e \in BOOLEAN, g \in BOOLEAN, c \in BOOLEAN }
  /\ idx = 0
  /\ body = EmptyObj
  /\ productData = EmptyObj
  /\ primaryQuery = << >>
  /\ allResults = << >>
  /\ searchResults = << >>
  /\ topResults = << >>
  /\ urlsToScrape = << >>
  /\ scrapedResults = << >>
  /\ scrapedBlock = << >>
  /\ trace = << >>
  /\ response = NoResponse
  /\ inFlight = << >>
  /\ other = Alone

FoodFrame ==
  UNCHANGED << mode, body, productData, primaryQuery, topResults, urlsToScrape,
               scrapedResults, scrapedBlock, response, input, other >>

FoodGoto(label, f, i, all, results, out) ==
  /\ pc' = label
  /\ food' = f
  /\ idx' = i
  /\ allResults' = all
  /\ searchResults' = results
  /\ output' = out

\* the outer catch of analyzeFoodImage
FoodThrow(message) ==
  FoodGoto("food_done", food, idx, allResults, searchResults, FoodAnalysisFailed(message))

\* an enhancement without a try block of its own
EnhancementNotCaught == FALSE

\* the web-search enhancement sits in a try block whose catch logs and goes on
EnhancementCaught == TRUE

\* the merge and the return of analyzeFoodImage
MergeAndReturn(f, allergenData) ==
  LET m == Merge(f.analysis, f.webNutritionData, f.ingredientData, allergenData)
      g == [f EXCEPT !.analysis = m.analysis, !.allergenData = List(allergenData),
                     !.webSearchError = m.thrown]
  IN IF m.thrown /\ ~ EnhancementCaught
     THEN FoodGoto("food_done", g, idx, allResults, searchResults,
                   FoodAnalysisFailed(<< "TypeError" >>))
     ELSE FoodGoto("food_done", g, idx, allResults, searchResults, Returned(m.analysis))

\* performWebSearch is entered: let allResults = []; the Google call when it
\* is configured, and otherwise the fallback at once
SearchStart(google, results, query, f, i) ==
  IF f.google THEN FoodGoto(google, f, i, << >>, << >>, output)
  ELSE LET all == WebResults(query, FALSE, [ok |-> FALSE, n |-> 0])
       IN FoodGoto(results, f, i, all, all, output)

\* searchAllergenData(analysis.foodItem)
AllergenStart(f) ==
  SearchStart("allergen_google", "allergen_results",
              Get(f.analysis, "foodItem").s \o AllergenSuffix, f, idx)

\* searchNutritionData for the i-th ingredient, or the end of the loop of
\* searchIngredientData
IngredientStart(f, i) ==
  IF i <= Len(IngredientsToProcess(f.analysis))
  THEN SearchStart("nutrition_google", "nutrition_results",
                   IngredientsToProcess(f.analysis)[i], f, i)
  ELSE AllergenStart(f)

\* searchNutritionData returned `data`: to analyzeFoodImage, which calls
\* searchIngredientData, or to the loop of searchIngredientData
AfterNutrition(f, i, data) ==
  IF i = 0
  THEN LET f1 == [f EXCEPT !.webNutritionData = data]
       IN IF IngredientsToProcess(f.analysis) = << >> THEN AllergenStart(f1)
          ELSE IngredientStart([f1 EXCEPT !.ingredientData = Obj(EmptyObj)], 1)
  ELSE LET ingredient == IngredientsToProcess(f.analysis)[i]
           f1 == IF data.k = "obj"
                 THEN [f EXCEPT !.ingredientData = Obj(With(@.o, ingredient, data))]
                 ELSE f
       IN FoodGoto("ingredient_delay", f1, i, allResults, searchResults, output)

\* validateImageUrl, and the check of the client that follows it;
\* axios.head(imageUrl) throws (unreachable, error status), answers a content
\* type that is not an image, or answers an image
ValidateImageUrl ==
  /\ pc = "food_validate"
  /\ Awaited("head")
  /\ \E out \in { "throw", "notimage", "image" } :
       /\ trace' = Append(trace, Ev("head", "image", input, out))
       /\ IF out # "image" THEN FoodThrow(<< "Invalid or inaccessible image URL:", " ", "message" >>)
          ELSE IF ~ food.client THEN FoodThrow(<< "No OpenAI API key configured" >>)
          ELSE FoodGoto("food_vision", food, idx, allResults, searchResults, output)
  /\ inFlight' = Tail(inFlight)
  /\ FoodFrame

\* the vision call of analyzeFoodImage returns; the reply is parsed
FoodVision ==
  /\ pc = "food_vision"
  /\ Awaited("vision")
  /\ \E reply \in Replies(FoodTexts) :
       /\ trace' = Append(trace, Ev("vision", "food", reply.text, OutName(reply)))
       /\ IF ~ reply.ok THEN FoodThrow(<< "message" >>)
          ELSE LET r == ParseReply(reply.text)
               IN IF r.k # "obj"
                  THEN FoodGoto("food_done", food, idx, allResults, searchResults,
                                Returned(UnknownAnalysis))
                  ELSE LET f == [food EXCEPT !.analysis = r.o]
                       IN IF EnhancementApplies(food.enabled, r.o)
                          THEN SearchStart("nutrition_google", "nutrition_results",
                                           Get(r.o, "foodItem").s, f, 0)
                          ELSE FoodGoto("food_done", f, idx, allResults, searchResults,
                                        Returned(r.o))
  /\ inFlight' = Tail(inFlight)
  /\ FoodFrame

\* the Google call of performWebSearch returns, inside searchNutritionData
NutritionGoogle ==
  /\ pc = "nutrition_google"
  /\ Awaited("google")
  /\ \E out \in GoogleOutcomes :
       LET all == WebResults(Item, TRUE, out)
       IN /\ trace' = Append(trace, [ev |-> "google", at |-> Site, out |-> OutName(out),
                                     n |-> out.n])
          /\ FoodGoto("nutrition_results", food, idx, all, all, output)
  /\ inFlight' = Tail(inFlight)
  /\ FoodFrame

\* searchNutritionData looks at what performWebSearch returned
NutritionResults ==
  /\ pc = "nutrition_results"
  /\ IF Len(searchResults) = 0 THEN AfterNutrition(food, idx, Null)
     ELSE FoodGoto("nutrition_gpt", food, idx, allResults, searchResults, output)
  /\ UNCHANGED << trace, inFlight >>
  /\ FoodFrame

\* the completion call of extractNutritionDataWithGPT returns
NutritionGpt ==
  /\ pc = "nutrition_gpt"
  /\ Awaited("extraction")
  /\ \E reply \in Replies(ExtractionTexts) :
       /\ trace' = Append(trace, [ev |-> "extraction", at |-> Site,
                                  out |-> OutName(reply), n |-> Len(searchResults)])
       /\ AfterNutrition(food, idx, Obj(NutritionDataOf(reply)))
  /\ inFlight' = Tail(inFlight)
  /\ FoodFrame

\* the delay after each ingredient of searchIngredientData
IngredientDelay ==
  /\ pc = "ingredient_delay"
  /\ trace' = Append(trace, [ev |-> "delay", at |-> "ingredient", out |-> "ok", n |-> 500])
  /\ IngredientStart(food, idx + 1)
  /\ UNCHANGED inFlight
  /\ FoodFrame

\* the Google call of performWebSearch returns, inside searchAllergenData
AllergenGoogle ==
  /\ pc = "allergen_google"
  /\ Awaited("google")
  /\ \E out \in GoogleOutcomes :
       LET all == WebResults(FoodItem \o AllergenSuffix, TRUE, out)
       IN /\ trace' = Append(trace, [ev |-> "google", at |-> "allergen",
                                     out |-> OutName(out), n |-> out.n])
          /\ FoodGoto("allergen_results", food, idx, all, all, output)
  /\ inFlight' = Tail(inFlight)
  /\ FoodFrame

\* searchAllergenData looks at what performWebSearch returned
AllergenResults ==
  /\ pc = "allergen_results"
  /\ IF Len(searchResults) = 0 THEN MergeAndReturn(food, << >>)
     ELSE FoodGoto("allergen_gpt", food, idx, allResults, searchResults, output)
  /\ UNCHANGED << trace, inFlight >>
  /\ FoodFrame

\* the completion call of extractAllergenDataWithGPT returns: an empty list
\* when the call throws or the reply does not parse, the list of the reply
\* otherwise; analyzeFoodImage merges and returns
AllergenGpt ==
  /\ pc = "allergen_gpt"
  /\ Awaited("extraction")
  /\ \E out \in { "throw", "unparsable", "none", "some" } :
       /\ trace' = Append(trace, [ev |-> "extraction", at |-> "allergen",
                                  out |-> out, n |-> Len(searchResults)])
       /\ MergeAndReturn(food, IF out = "some" THEN << << "nuts" >> >> ELSE << >>)
  /\ inFlight' = Tail(inFlight)
  /\ FoodFrame

NextFood ==
  \/ StartCall
  \/ ValidateImageUrl
  \/ FoodVision
  \/ NutritionGoogle
  \/ NutritionResults
  \/ NutritionGpt
  \/ IngredientDelay
  \/ AllergenGoogle
  \/ AllergenResults
  \/ AllergenGpt

SpecFood == InitFood /\ [][NextFood]_vars

---------------------------------------------------------------------------
(* Properties.  In the statements below a product name and a barcode are   *)
(* read the way the code reads them: the string form of the field, trimmed, *)
(* and empty when the field is missing or null.                            *)

Calls(ev)       == SelectSeq(trace, LAMBDA e : e.ev = ev)
SearchCalls(at) == SelectSeq(trace, LAMBDA e : e.ev = "search" /\ e.at = at)
AllSearchCalls  == Calls("search")

Failed(at)    == SearchCalls(at) # << >> /\ SearchCalls(at)[1].out = "throw"
Succeeded(at) == SearchCalls(at) # << >> /\ SearchCalls(at)[1].out = "ok"

SearchReturned == pc = "search_done"

\* C1: performWebSearch never throws: whatever the primary, product-name and
\* barcode calls do and whatever the attributes are, it returns a list, and
\* the list is empty when every call it made failed.
C1_NeverThrows ==
  /\ pc # "search_threw"
  /\ SearchReturned =>
       /\ DOMAIN searchResults = 1..Len(searchResults)
       /\ (\A i \in 1..Len(AllSearchCalls) : AllSearchCalls[i].out = "throw")
            => searchResults = << >>

\* all three calls were made and all three failed
C1_Witness ==
  /\ SearchReturned
  /\ Failed("primary") /\ Failed("fallback") /\ Failed("barcode")
  /\ searchResults = << >>

\* C2 as stated: whenever the primary call throws and the product name differs
\* from the primary query, exactly one fallback call is made, with the query
\* product name + " nutrition facts ingredients".
C2_Original ==
  (SearchReturned /\ Failed("primary")
     /\ TrimmedField(Get(productData, "product_name")) # primaryQuery)
  => /\ Len(SearchCalls("fallback")) = 1
     /\ SearchCalls("fallback")[1].arg =
          TrimmedField(Get(productData, "product_name")) \o FallbackSuffix

\* C2 amended: whenever the primary call throws and the trimmed product name is
\* non-empty and differs from the primary query, exactly one fallback call is
\* made, with the query trimmed product name + " nutrition facts ingredients";
\* with an empty or missing product name no fallback call is made.
C2_FallbackCall ==
  (SearchReturned /\ Failed("primary"))
  => LET pname == TrimmedField(Get(productData, "product_name"))
     IN IF pname # << >> /\ pname # primaryQuery
        THEN /\ Len(SearchCalls("fallback")) = 1
             /\ SearchCalls("fallback")[1].arg =
                  pname \o << " ", "nutrition", " ", "facts", " ", "ingredients" >>
        ELSE SearchCalls("fallback") = << >>

\* the primary call failed and the fallback call was made for a product name
\* that had to be trimmed
C2_Witness ==
  /\ SearchReturned
  /\ Failed("primary")
  /\ Get(productData, "product_name") = Str(<< " ", "a" >>)
  /\ Len(SearchCalls("fallback")) = 1
  /\ SearchCalls("fallback")[1].arg =
       << "a", " ", "nutrition", " ", "facts", " ", "ingredients" >>

\* C3: the barcode call is made exactly once, with the barcode alone as the
\* query, when the primary call failed, the product-name call did not run or
\* also failed, and the barcode is non-empty; otherwise no barcode call is made.
C3_BarcodeCall ==
  SearchReturned
  => LET barcode == TrimmedField(Get(productData, "barcode_or_upc"))
     IN IF Failed("primary") /\ ~ Succeeded("fallback") /\ barcode # << >>
        THEN /\ Len(SearchCalls("barcode")) = 1
             /\ SearchCalls("barcode")[1].arg = barcode
        ELSE SearchCalls("barcode") = << >>

\* primary and product-name calls failed, the barcode call was made
C3_Witness ==
  /\ SearchReturned
  /\ Failed("primary") /\ Failed("fallback")
  /\ Len(SearchCalls("barcode")) = 1
  /\ SearchCalls("barcode")[1].arg = << "0" >>
  /\ searchResults # << >>

---------------------------------------------------------------------------
(* Properties of the route *)

Responded == pc = "done"

Last == trace[Len(trace)]

VisionThrew   == trace # << >> /\ trace[1].ev = "vision" /\ trace[1].out = "throw"
VisionReplied == trace # << >> /\ trace[1].ev = "vision" /\ trace[1].out = "ok"
VisionParseFailed ==
  VisionReplied /\ extractJsonFromText(trace[1].arg).k # "obj"

SynthesisThrew   == trace # << >> /\ Last.ev = "synthesis" /\ Last.out = "throw"
SynthesisReplied == trace # << >> /\ Last.ev = "synthesis" /\ Last.out = "ok"

\* the kinds of response a caller can tell apart
IsFull(r)     == r.status = 200 /\ "debug" \in DOMAIN r.body
IsPartial(r)  ==
  /\ r.status = 500
  /\ {"productData", "searchQuery", "searchResults"} \subseteq DOMAIN r.body
IsInternal(r) ==
  /\ r.status = 500
  /\ DOMAIN r.body = {"error", "details"}
  /\ r.body.error = "internal_error"

\* C4: when the synthesis reply cannot be extracted as JSON the response is the
\* partial envelope: the attributes, the query, the first 6 search results and
\* an error indicator (status 500, an error field); neither its status nor its
\* set of fields is that of any full-success response.
C4_PartialEnvelope ==
  (Responded /\ SynthesisReplied /\ extractJsonFromText(Last.arg).k # "obj")
  => /\ response.status = 500
     /\ DOMAIN response.body = {"error", "productData", "searchQuery", "searchResults"}
     /\ response.body.productData = productData
     /\ response.body.searchQuery = primaryQuery
     /\ response.body.searchResults =
          SubSeq(searchResults, 1, Min(6, Len(searchResults)))
     /\ \A t \in SynthesisReplies :
          extractJsonFromText(t).k = "obj"
          => LET full == FullReport(extractJsonFromText(t).o, primaryQuery,
                                    searchResults, scrapedResults)
             IN /\ full.status # response.status
                /\ DOMAIN full.body # DOMAIN response.body

\* a partial envelope that cut a longer result list down to 6
C4_Witness ==
  /\ Responded /\ SynthesisReplied
  /\ extractJsonFromText(Last.arg).k # "obj"
  /\ Len(searchResults) > 6
  /\ "searchResults" \in DOMAIN response.body
  /\ Len(response.body.searchResults) = 6

\* C5 as stated: every run ends with a full report or a partial envelope.
C5_Original ==
  (Responded /\ IsValid(body)) => (IsFull(response) \/ IsPartial(response))

\* C5 amended: every run ends with a full report, a partial envelope carrying
\* attributes, query and raw results, or the 500 internal_error response that
\* carries only the error message; the last one is what the caller receives
\* exactly when the vision call or the synthesis call throws.  A failing search
\* or page fetch never changes the kind of response.
C5_ResponseKinds ==
  (Responded /\ IsValid(body))
  => /\ IsFull(response) \/ IsPartial(response) \/ IsInternal(response)
     /\ IsInternal(response) <=> (VisionThrew \/ SynthesisThrew)
     /\ IsPartial(response) <=>
          (SynthesisReplied /\ extractJsonFromText(Last.arg).k # "obj")

\* the synthesis call threw after search and fetch failures had been absorbed
C5_Witness ==
  /\ Responded /\ SynthesisThrew /\ IsInternal(response)
  /\ \E i \in 1..Len(trace) : trace[i].ev = "search" /\ trace[i].out = "throw"
  /\ \E i \in 1..Len(trace) : trace[i].ev = "fetch" /\ trace[i].out = "throw"

\* C6 as stated: on success the debug block reports the number of search
\* results and the number of pages actually scraped.
C6_DebugCounts ==
  (Responded /\ response.status = 200)
  => /\ response.body.debug.searchResultsCount = Len(searchResults)
     /\ response.body.debug.scrapedPagesCount = Len(scrapedResults)

\* C7: when the vision reply cannot be parsed the run goes on with the
\* substitute {product_name: null, brand: null}: the query is built, the search
\* runs, the selected pages are fetched and the synthesis call is made.
C7_ParseFailureDegrades ==
  (Responded /\ VisionParseFailed)
  => /\ DOMAIN productData = {"product_name", "brand"}
     /\ productData["product_name"] = Null
     /\ productData["brand"] = Null
     /\ primaryQuery = << "nutrition", " ", "facts,", " ", "ingredients", " ", "for" >>
     /\ Len(Calls("search")) >= 1
     /\ Len(Calls("fetch")) = Min(5, Len(searchResults))
     /\ Len(Calls("synthesis")) = 1
     /\ ~ IsInternal(response) \/ SynthesisThrew

\* an unparsable vision reply and still a full report with scraped pages
C7_Witness ==
  /\ Responded /\ VisionParseFailed
  /\ IsFull(response)
  /\ Len(scrapedResults) > 0

\* C8 as stated: when the vision call throws the run degrades to the minimal
\* attributes and does not end with a failure.
C8_Original ==
  VisionThrew
  => /\ DOMAIN productData = {"product_name", "brand"}
     /\ ~ (Responded /\ response.status >= 400)

\* C8 amended: when the vision call throws, the catch of the route ends the run
\* with the 500 internal_error response; no attributes are substituted, no
\* query is built and no search, page fetch or synthesis call is made.
C8_VisionThrowEndsRun ==
  VisionThrew
  => /\ Responded
     /\ response.status = 500
     /\ response.body.error = "internal_error"
     /\ Len(trace) = 1
     /\ productData = EmptyObj
     /\ primaryQuery = << >>

C8_Witness == VisionThrew /\ Responded /\ IsInternal(response)

\* C9 as stated: every attributes value leaving the vision stage has a
\* visible_text list and a confidence value.
C9_Original ==
  VisionReplied
  => /\ Get(productData, "visible_text").k = "list"
     /\ Get(productData, "confidence").k = "str"

\* C9 amended: the attributes value leaving the vision stage is the object
\* parsed from the reply, with no field added or defaulted, or on parse failure
\* the substitute with exactly product_name and brand, both null: it has no
\* visible_text list and no confidence value.
C9_AttributesAsParsed ==
  VisionReplied
  => LET r == extractJsonFromText(trace[1].arg)
     IN IF r.k = "obj"
        THEN productData = r.o
        ELSE /\ DOMAIN productData = {"product_name", "brand"}
             /\ \A f \in DOMAIN productData : productData[f].k = "null"

\* the substitute left the vision stage without visible_text and confidence
C9_Witness ==
  /\ VisionParseFailed
  /\ pc = "search_primary"
  /\ "visible_text" \notin DOMAIN productData
  /\ "confidence" \notin DOMAIN productData

ScrapeReturned ==
  \/ pc = "scrape" /\ idx > Len(urlsToScrape)
  \/ pc = "done" /\ Calls("synthesis") # << >>

\* the list given to scrapeMultipleUrls
ScrapeInput == SubSeq(searchResults, 1, Min(6, Len(searchResults)))

\* the i-th fetch produced a page: it neither threw nor answered a non-success
\* status, and the text of the document is not empty
FetchKept(i) ==
  /\ Calls("fetch")[i].out = "ok"
  /\ extractTextFromHTML(Html(ScrapeInput[i].link)) # << >>

RECURSIVE KeptFrom(_, _)
KeptFrom(i, n) ==
  IF i > n THEN << >>
  ELSE (IF FetchKept(i)
        THEN << [title |-> ScrapeInput[i].title, url |-> ScrapeInput[i].link] >>
        ELSE << >>) \o KeptFrom(i + 1, n)

\* C10: scrapeMultipleUrls returns at most maxPages (5) pages; they are, in
\* input order, exactly the results among the first 5 whose fetch neither threw
\* nor returned a non-success status and whose extracted text is non-empty.
C10_PagesAreKeptPrefix ==
  ScrapeReturned
  => LET n == Min(5, Len(ScrapeInput))
     IN /\ Len(scrapedResults) <= 5
        /\ Len(Calls("fetch")) = n
        /\ [ i \in 1..Len(scrapedResults) |->
               [title |-> scrapedResults[i].title, url |-> scrapedResults[i].url] ]
             = KeptFrom(1, n)

\* 6 results given, 5 fetched: one threw, one was refused, one had no text,
\* two produced pages
C10_Witness ==
  /\ ScrapeReturned
  /\ Len(ScrapeInput) = 6
  /\ \E i \in 1..5 : Calls("fetch")[i].out = "throw"
  /\ \E i \in 1..5 : Calls("fetch")[i].out = "notok"
  /\ \E i \in 1..5 :
       /\ Calls("fetch")[i].out = "ok"
       /\ extractTextFromHTML(Html(ScrapeInput[i].link)) = << >>
  /\ Len(scrapedResults) = 2

---------------------------------------------------------------------------
(* scrapeUrl and scrapeMultipleUrls *)

\* the i-th fetch returned a document whose extracted text is empty
FetchedEmptyText(i) ==
  /\ Calls("fetch")[i].out = "ok"
  /\ extractTextFromHTML(Html(Calls("fetch")[i].arg)) = << >>

\* C11: every page scrapeUrl produces has a content of at least 1 and at most
\* 3000 characters; a document whose extracted text is empty produces no page.
C11_ContentWithinCap ==
  /\ \A i \in 1..Len(scrapedResults) :
       /\ RunLen(scrapedResults[i].content) >= 1
       /\ RunLen(scrapedResults[i].content) <= 3000
  /\ \A i \in 1..Len(Calls("fetch")) :
       FetchedEmptyText(i)
       => \A j \in 1..Len(scrapedResults) : scrapedResults[j].title # Calls("fetch")[i].at

\* a document of 3201 characters gave a page of exactly 3000, a shorter one
\* was kept whole, and a document without text was fetched
C11_Witness ==
  /\ \E j \in 1..Len(scrapedResults) :
       /\ RunLen(extractTextFromHTML(Html(scrapedResults[j].url))) > 3000
       /\ RunLen(scrapedResults[j].content) = 3000
  /\ \E j \in 1..Len(scrapedResults) :
       /\ RunLen(scrapedResults[j].content) < 3000
       /\ scrapedResults[j].content = extractTextFromHTML(Html(scrapedResults[j].url))
  /\ \E i \in 1..Len(Calls("fetch")) : FetchedEmptyText(i)

\* the pages of scrapedResults made from the i-th entry of the input
PagesOf(i) ==
  { j \in 1..Len(scrapedResults) : scrapedResults[j].title = ScrapeInput[i].title }

\* C12: scrapeMultipleUrls never fails as a whole.  Whatever each fetch does
\* (throws, answers a non-success status, returns a document without text),
\* the request is not answered while the loop runs, the failed page alone is
\* left out, the loop goes on to the next URL until each of the first 5 was
\* tried, and a list is returned.
C12_NeverFailsAsAWhole ==
  /\ pc \in {"scrape", "scrape_delay"} => response = NoResponse
  /\ \A i \in 1..Len(Calls("fetch")) :
       /\ Calls("fetch")[i].at = i
       /\ Calls("fetch")[i].arg = ScrapeInput[i].link
       /\ Cardinality(PagesOf(i)) = IF FetchKept(i) THEN 1 ELSE 0
  /\ ScrapeReturned
     => /\ Len(Calls("fetch")) = Min(5, Len(ScrapeInput))
        /\ Len(scrapedResults) <= Len(Calls("fetch"))
        /\ IsInternal(response) => SynthesisThrew

\* the first fetch threw, the second was refused, the third had no text, and
\* the fourth still produced the one page of the list returned
C12_Witness ==
  /\ ScrapeReturned
  /\ Len(Calls("fetch")) >= 4
  /\ Calls("fetch")[1].out = "throw"
  /\ Calls("fetch")[2].out = "notok"
  /\ Calls("fetch")[3].out = "ok" /\ ~ FetchKept(3)
  /\ FetchKept(4)
  /\ Len(scrapedResults) = 1
  /\ scrapedResults[1].title = ScrapeInput[4].title

\* C13: the fetches of one scrapeMultipleUrls call are strictly sequential.
\* At most one fetch is in flight, none is started while the previous one
\* has not returned, and after every fetch, whatever its outcome, the 500 ms
\* delay elapses before anything else happens.
C13_SequentialWithDelay ==
  /\ Len(SelectSeq(inFlight, LAMBDA c : c.ev = "fetch")) <= 1
  /\ \A p \in 1..Len(trace) :
       trace[p].ev = "fetch"
       => IF p < Len(trace)
          THEN trace[p + 1] = Ev("delay", "scrape", 500, "ok")
          ELSE inFlight = << >>

\* a fetch that threw and a fetch that produced a page were each followed by
\* the delay, and the third fetch is in flight
C13_Witness ==
  /\ Len(ScrapeInput) >= 3
  /\ Len(Calls("fetch")) = 2
  /\ Calls("fetch")[1].out = "throw"
  /\ Calls("fetch")[2].out = "ok"
  /\ Len(Calls("delay")) >= 2
  /\ inFlight = << Call("fetch", 3, ScrapeInput[3].link) >>

---------------------------------------------------------------------------
(* buildSearchQuery *)

\* the fixed phrase of the query
QueryPhrase ==
  << "nutrition", " ", "facts,", " ", "ingredients", " ", "for", " " >>

\* the attributes as the code reads them: the string form, trimmed, empty
\* when the field is missing or null; the list, empty when it is missing
BrandOf(pd)   == TrimmedField(Get(pd, "brand"))
NameOf(pd)    == TrimmedField(Get(pd, "product_name"))
BarcodeOf(pd) == TrimmedField(Get(pd, "barcode_or_upc"))
First4Of(pd)  ==
  LET vt == VisibleText(pd)
  IN Join([ i \in 1..Min(4, Len(vt)) |-> vt[i] ])

\* the base by strict precedence, the first non-empty one
ExpectedBase(pd) ==
  IF BrandOf(pd) # << >> /\ NameOf(pd) # << >>
    THEN BrandOf(pd) \o << " " >> \o NameOf(pd)
  ELSE IF BrandOf(pd) # << >> THEN BrandOf(pd)
  ELSE IF NameOf(pd) # << >> THEN NameOf(pd)
  ELSE IF BarcodeOf(pd) # << >> THEN BarcodeOf(pd)
  ELSE IF First4Of(pd) # << >> THEN First4Of(pd)
  ELSE << >>

\* C14: buildSearchQuery returns the fixed phrase "nutrition facts,
\* ingredients for " followed by the base, the whole trimmed, where the base
\* is the first non-empty of: brand and product name joined by a space (empty
\* parts skipped), the barcode alone, the first 4 entries of the visible text
\* joined by spaces, the empty string.
C14_QueryByPrecedence ==
  pc = "query_done" => output = Trim(QueryPhrase \o ExpectedBase(input))

\* no brand, a null product name, a blank barcode and five visible entries:
\* the query is built from the first four entries
C14_Witness ==
  /\ pc = "query_done"
  /\ BrandOf(input) = << >> /\ Get(input, "product_name") = Null
  /\ Get(input, "barcode_or_upc") = Str(<< " " >>)
  /\ Len(VisibleText(input)) = 5
  /\ output = << "nutrition", " ", "facts,", " ", "ingredients", " ", "for", " ",
                 "a", " ", "b", " ", "a", " ", "b" >>

\* nothing to build the query from
AllEmpty(pd) ==
  /\ BrandOf(pd) = << >>
  /\ NameOf(pd) = << >>
  /\ BarcodeOf(pd) = << >>
  /\ VisibleText(pd) = << >>

\* C15: the query buildSearchQuery returns is never the empty string; when
\* brand, product name, barcode and visible text are all empty or missing it
\* is the fixed phrase alone, trimmed.
C15_QueryNeverEmpty ==
  pc = "query_done"
  => /\ output # << >>
     /\ AllEmpty(input)
        => output = << "nutrition", " ", "facts,", " ", "ingredients", " ", "for" >>

\* a null product name, a blank barcode and an empty list gave the phrase alone
C15_Witness ==
  /\ pc = "query_done"
  /\ Get(input, "product_name") = Null
  /\ Get(input, "barcode_or_upc") = Str(<< " " >>)
  /\ Get(input, "visible_text") = List(<< >>)
  /\ AllEmpty(input)
  /\ output = << "nutrition", " ", "facts,", " ", "ingredients", " ", "for" >>

---------------------------------------------------------------------------
(* extractJsonFromText *)

\* the object each well-formed text of the model denotes
Denotation(o) ==
  CASE o = << LB, RB >> -> EmptyObj
    [] o = << LB, M(Members), RB >> -> Members
    [] o = << LB, K("data"), LB, M(Members), RB, RB >> -> [data |-> Obj(Members)]
    [] o = << LB, M(Members), K("data"), LB, RB, RB >> ->
         [product_name |-> Str(<< "a" >>), data |-> Obj(EmptyObj)]
    [] o = << LB, K("data"), LB, K("data"), LB, RB, RB, M(Members), RB >> ->
         [data |-> Obj([data |-> Obj(EmptyObj)]), product_name |-> Str(<< "a" >>)]

\* the tokens of kind t in a text
Has(text, t) == \E i \in 1..Len(text) : text[i].t = t

\* prose without braces
IsProse(text) == \A i \in 1..Len(text) : text[i].t = "p"

\* prose in which braces may occur
IsBracedProse(text) == \A i \in 1..Len(text) : text[i].t \in {"p", "lb", "rb"}

\* the ways to read a text as  before, well-formed object, after
Readings(text) ==
  { r \in [i : 1..Len(text), j : 1..Len(text)] :
      r.i < r.j /\ SubSeq(text, r.i, r.j) \in WellFormed }
Before(text, r) == SubSeq(text, 1, r.i - 1)
Within(text, r) == SubSeq(text, r.i, r.j)
After(text, r)  == SubSeq(text, r.j + 1, Len(text))

\* C16: extractJsonFromText parses the one span from the leftmost { to the
\* rightmost }.  A single well-formed object surrounded by prose without
\* braces is returned exactly; when the prose before it holds a { or the
\* prose after it holds a }, the span is not JSON and the call fails instead
\* of recovering the object.
C16_GreedySpan ==
  pc = "extract_done"
  => \A r \in Readings(input) :
       /\ IsProse(Before(input, r)) /\ IsProse(After(input, r))
          => output = Obj(Denotation(Within(input, r)))
       /\ /\ IsBracedProse(Before(input, r)) /\ IsBracedProse(After(input, r))
          /\ Has(Before(input, r), "lb") \/ Has(After(input, r), "rb")
          => output = NoParse

\* an object followed by prose that holds a closing brace: nothing is returned
C16_Witness ==
  /\ pc = "extract_done"
  /\ input = << LB, M(Members), RB, P, RB >>
  /\ output = NoParse

\* C17 as stated: a text without { and a text whose span is not JSON give
\* two outcomes a caller can tell apart.
C17_Original ==
  pc = "extract_done" /\ ~ Has(input, "lb")
  => output # extractJsonFromText(<< LB, P, RB >>)

\* the span from the leftmost { to the rightmost } starts with prose
SpanStartsWithProse(text) ==
  \E i, j \in 1..Len(text) :
    /\ i + 1 < j
    /\ text[i].t = "lb" /\ \A h \in 1..(i - 1) : text[h].t # "lb"
    /\ text[j].t = "rb" /\ \A h \in (j + 1)..Len(text) : text[h].t # "rb"
    /\ text[i + 1].t = "p"

\* C17: extractJsonFromText has one failure outcome: it returns null for a
\* text without {, for a text without } after the first {, and for a span
\* that is not JSON alike; whatever is not null is the parsed object.
C17_SingleFailureOutcome ==
  pc = "extract_done"
  => /\ output.k = "obj" \/ output = NoParse
     /\ ~ Has(input, "lb") => output = NoParse
     /\ ~ Has(input, "rb") => output = NoParse
     /\ SpanStartsWithProse(input) => output = NoParse

\* a span that is not JSON gave null, the outcome of a text without braces
C17_Witness ==
  /\ pc = "extract_done"
  /\ input = << P, LB, P, RB >>
  /\ output = NoParse
  /\ output = extractJsonFromText(<< P >>)

---------------------------------------------------------------------------
(* The external calls of one run *)

\* the stage of a call: vision, search, page fetch, synthesis
Stage(ev) ==
  CASE ev = "vision" -> 1 [] ev = "search" -> 2 [] ev = "fetch" -> 3
    [] ev = "synthesis" -> 4

\* the calls that returned or threw, in order, without the delays
Completed == SelectSeq(trace, LAMBDA e : e.ev # "delay")

\* the calls of a kind started so far
Started(ev) == Len(Calls(ev)) + Len(SelectSeq(inFlight, LAMBDA c : c.ev = ev))

\* C18: the external calls of one pipeline run are strictly sequential and
\* ordered by stage.  No two calls are in flight together, and a call is
\* started only when every call of an earlier stage has completed and no call
\* of a later stage has been made: vision, then the search attempts, then the
\* page fetches, then synthesis.
C18_StageOrder ==
  /\ Len(inFlight) <= 1
  /\ \A p, q \in 1..Len(Completed) :
       p < q => Stage(Completed[p].ev) <= Stage(Completed[q].ev)
  /\ \A c \in 1..Len(inFlight) :
       /\ \A p \in 1..Len(Completed) : Stage(Completed[p].ev) <= Stage(inFlight[c].ev)
       /\ Stage(inFlight[c].ev) > 1 => Len(Calls("vision")) = 1
       /\ Stage(inFlight[c].ev) > 2 => Len(Calls("search")) >= 1

\* a whole run: vision, three search attempts, five fetches, synthesis
C18_Witness ==
  /\ Responded
  /\ [ p \in 1..Len(Completed) |-> Completed[p].ev ]
       = << "vision", "search", "search", "search",
            "fetch", "fetch", "fetch", "fetch", "fetch", "synthesis" >>

\* C19: no external call is retried.  In one pipeline run the vision call and
\* the synthesis call are made at most once, each selected search result is
\* fetched at most once, and at most three search calls are made, at most
\* one each for the primary, the product-name and the barcode query.
C19_NoRetry ==
  /\ Started("vision") <= 1
  /\ Started("synthesis") <= 1
  /\ Started("search") <= 3
  /\ \A at \in {"primary", "fallback", "barcode"} :
       Len(SearchCalls(at))
         + Len(SelectSeq(inFlight, LAMBDA c : c.ev = "search" /\ c.at = at)) <= 1
  /\ Started("fetch") <= Len(urlsToScrape)
  /\ \A i \in 1..Len(urlsToScrape) :
       Len(SelectSeq(trace, LAMBDA e : e.ev = "fetch" /\ e.at = i))
         + Len(SelectSeq(inFlight, LAMBDA c : c.ev = "fetch" /\ c.at = i)) <= 1

\* a run in which two search calls and three fetches failed and none was
\* made again
C19_Witness ==
  /\ Responded
  /\ Failed("primary") /\ Failed("fallback") /\ Succeeded("barcode")
  /\ Len(Calls("fetch")) = 5
  /\ Len(SelectSeq(Calls("fetch"), LAMBDA e : e.out = "throw")) = 3
  /\ Len(Calls("synthesis")) = 1

\* no fetch of the run produced a page
NoPageFetched == \A i \in 1..Len(Calls("fetch")) : ~ FetchKept(i)

\* C20: when every page fetch fails, or there is no search result at all,
\* the run goes on: scrapeMultipleUrls returns the empty list, the synthesis
\* call is made with an empty context block, and the request is answered
\* from the synthesis reply.
C20_GoesOnWithoutPages ==
  /\ Responded /\ VisionReplied => Len(Calls("synthesis")) = 1
  /\ ScrapeReturned /\ NoPageFetched
     => /\ scrapedResults = << >>
        /\ inFlight # << >> => inFlight = << Call("synthesis", "report", << >>) >>
        /\ Responded
           => /\ scrapedBlock = << >>
              /\ SynthesisReplied => IsFull(response) \/ IsPartial(response)

\* five fetches, none produced a page, and a full report was returned
C20_Witness ==
  /\ Responded
  /\ Len(Calls("fetch")) = 5
  /\ NoPageFetched
  /\ scrapedBlock = << >>
  /\ IsFull(response)

---------------------------------------------------------------------------
(* analyzeComprehensive and performWebSearch: which results, in which order *)

\* analyzeComprehensive has been entered
Analysing == pc \in {"scrape", "scrape_delay"} \/ ScrapeReturned

\* C21: the pipeline takes the first 6 search results and fetches the first 5
\* of those: the fetches of a run are those of the first min(5, number of
\* search results) results, in search order, one each.
C21_FetchesFirstFive ==
  /\ Analysing
     => /\ topResults = SubSeq(searchResults, 1, Min(6, Len(searchResults)))
        /\ \A i \in 1..Len(Calls("fetch")) :
             /\ i <= Min(5, Len(searchResults))
             /\ Calls("fetch")[i].arg = searchResults[i].link
  /\ ScrapeReturned => Len(Calls("fetch")) = Min(5, Len(searchResults))

\* 7 results: 6 taken, 5 fetched; the sixth and the seventh were not
C21_Witness ==
  /\ ScrapeReturned
  /\ Len(searchResults) = 7
  /\ Len(topResults) = 6
  /\ [ i \in 1..Len(Calls("fetch")) |-> Calls("fetch")[i].arg ]
       = [ i \in 1..5 |-> searchResults[i].link ]

\* the lists the provider answered to the calls that succeeded, one after
\* the other in the order of the calls
RECURSIVE Answers(_)
Answers(calls) ==
  IF calls = << >> THEN << >>
  ELSE (IF Head(calls).out = "ok" THEN Results(Head(calls).arg, Head(calls).n)
        ELSE << >>) \o Answers(Tail(calls))

\* C22: the list performWebSearch returns is the concatenation, in the order
\* of the calls, of the lists the provider answered to the attempts that
\* succeeded, each in the provider's order: nothing is dropped, reordered or
\* deduplicated.
C22_ResultsConcatenated ==
  SearchReturned => searchResults = Answers(AllSearchCalls)

\* two attempts failed, the barcode attempt answered 7 results, two of them
\* with the same link, and the 7 are returned
C22_Witness ==
  /\ SearchReturned
  /\ Failed("primary") /\ Failed("fallback") /\ Succeeded("barcode")
  /\ Len(searchResults) = 7
  /\ searchResults[1].link = searchResults[1 + NumLinks].link

\* C23: every search call is ended by its answer, its failure or its
\* timeout, so performWebSearch always terminates.
C23_SearchTerminates == <>(pc \in {"search_done", "search_threw"})

\* the synthesis call has been made
SynthesisStarted == Started("synthesis") >= 1

\* C24: the context block of the synthesis prompt is bounded.  It holds at
\* most 5 pages, the scraped pages in scrape order, and the content of each
\* is at most 2000 characters: the first 2000 of the page's text, whose
\* whitespace is collapsed.
C24_BlockBounded ==
  SynthesisStarted
  => /\ Awaited("synthesis") => inFlight[1].arg = scrapedBlock
     /\ Len(scrapedBlock) <= 5
     /\ Len(scrapedBlock) = Min(5, Len(scrapedResults))
     /\ \A i \in 1..Len(scrapedBlock) :
          /\ scrapedBlock[i].n = i
          /\ scrapedBlock[i].title = scrapedResults[i].title
          /\ scrapedBlock[i].url = scrapedResults[i].url
          /\ RunLen(scrapedBlock[i].content) <= 2000
          /\ RunLen(scrapedBlock[i].content)
               = Min(2000, RunLen(scrapedResults[i].content))
          /\ scrapedBlock[i].content
               = SliceRuns(scrapedResults[i].content, RunLen(scrapedBlock[i].content))
          /\ CollapseWs(scrapedBlock[i].content) = scrapedBlock[i].content

\* a page of 3000 characters is in the block with its first 2000, a shorter
\* page is there whole
C24_Witness ==
  /\ SynthesisStarted
  /\ \E i \in 1..Len(scrapedBlock) :
       /\ RunLen(scrapedResults[i].content) = 3000
       /\ RunLen(scrapedBlock[i].content) = 2000
  /\ \E i \in 1..Len(scrapedBlock) :
       /\ RunLen(scrapedResults[i].content) < 2000
       /\ scrapedBlock[i].content = scrapedResults[i].content

---------------------------------------------------------------------------
(* Two requests in progress *)

\* the same calls with the same answers, one by one
SameEvents(s, t) ==
  /\ Len(s) = Len(t)
  /\ \A i \in 1..Len(s) : s[i].ev = t[i].ev /\ s[i] = t[i]

\* the other request got the same body and the same answers, and stands
\* at the same point of the handler
SameStory ==
  /\ Concurrent
  /\ other.body = body
  /\ other.pc = pc
  /\ SameEvents(other.trace, trace)
  /\ SameEvents(other.inFlight, inFlight)

\* C25: two requests whose suspension points interleave are independent.
\* What a request holds (attributes, query, search results, scraped pages,
\* response) is decided by its own body and the answers to its own calls
\* alone: two requests with the same body and the same answers hold the
\* same at the same point of the handler, however their steps interleave, and the results and pages of each
\* are those of its own calls.
C25_RunsIndependent ==
  Concurrent
  => /\ SameStory
        => /\ other.productData = productData
           /\ other.primaryQuery = primaryQuery
           /\ other.searchResults = searchResults
           /\ other.scrapedResults = scrapedResults
           /\ other.response = response
     /\ Analysing => searchResults = Answers(AllSearchCalls)
     /\ ScrapeReturned
        => [ i \in 1..Len(scrapedResults) |->
               [title |-> scrapedResults[i].title, url |-> scrapedResults[i].url] ]
             = KeptFrom(1, Min(5, Len(ScrapeInput)))

\* both requests failed their primary search, got a result from the
\* product-name search, scraped a page, and each has its second fetch in
\* flight
C25_Witness ==
  /\ SameStory
  /\ Failed("primary") /\ Succeeded("fallback")
  /\ Len(searchResults) = 2
  /\ Len(scrapedResults) = 1
  /\ Len(inFlight) = 1
  /\ inFlight[1].ev = "fetch"
  /\ inFlight[1] = Call("fetch", 2, searchResults[2].link)

---------------------------------------------------------------------------
(* Arguments *)

\* the positions of the handler inside performWebSearch
InPerformWebSearch ==
  pc \in { "search_primary", "fallback_delay", "fallback_search",
           "barcode_delay", "barcode_search" }

\* the positions of the handler inside scrapeMultipleUrls
InScrapeMultipleUrls ==
  /\ pc \in { "scrape", "scrape_delay" }
  /\ idx <= Len(urlsToScrape)

\* C26: performWebSearch and scrapeMultipleUrls never change their
\* arguments: no step taken inside performWebSearch, its return included,
\* changes the query or the attributes object, and no step taken inside
\* scrapeMultipleUrls changes the list of search results it was given (nor
\* the list it was cut from).
C26_ArgumentsUnchanged ==
  [][ /\ InPerformWebSearch
         => primaryQuery' = primaryQuery /\ productData' = productData
      /\ InScrapeMultipleUrls
         => topResults' = topResults /\ searchResults' = searchResults ]_vars

\* a request whose attributes carry padded strings went through the
\* product-name step of performWebSearch and through a whole
\* scrapeMultipleUrls over six results, one page kept at least
C26_Witness ==
  /\ pc = "done"
  /\ Failed("primary") /\ Succeeded("fallback")
  /\ Get(productData, "product_name") = Str(<< " ", "a" >>)
  /\ Len(topResults) = 6
  /\ Len(Calls("fetch")) = 5
  /\ Len(scrapedResults) >= 1

---------------------------------------------------------------------------
(* Pure functions *)

\* the function was applied once to the input
AppliedOnce == pc \in { "query_done", "extract_done" }

---------------------------------------------------------------------------
(* Courtesy delay *)

IsSearch(e, at) == e.ev = "search" /\ e.at = at
IsDelay(e, at)  == e.ev = "delay" /\ e.at = at /\ e.arg = 400

LaterAttempts == { "fallback", "barcode" }

\* performWebSearch is over
SearchOver == pc \in { "search_done", "search_threw" }

\* C28: in performWebSearch the product-name call and the barcode call are
\* each made right after a delay of 400 ms, and that delay starts right after
\* an attempt that failed; the primary call is the first thing that happens,
\* with no delay before it; and every delay taken is followed by its call.
C28_DelayBeforeEachFallback ==
  /\ \A i \in 1..Len(trace) :
       /\ trace[i].ev \in { "search", "delay" }
       /\ trace[i].ev = "search" /\ trace[i].at \in LaterAttempts
          => /\ i >= 3
             /\ IsDelay(trace[i - 1], trace[i].at)
             /\ trace[i - 2].ev = "search" /\ trace[i - 2].out = "throw"
       /\ trace[i].ev = "search" /\ trace[i].at = "primary" => i = 1
       /\ trace[i].ev = "delay"
          => /\ i >= 2
             /\ trace[i].at \in LaterAttempts
             /\ IsDelay(trace[i], trace[i].at)
             /\ trace[i - 1].ev = "search" /\ trace[i - 1].out = "throw"
             /\ IF i < Len(trace) THEN IsSearch(trace[i + 1], trace[i].at)
                ELSE ~ SearchOver /\ NextCall = Call("search", trace[i].at, NextCall.arg)
  /\ \A c \in 1..Len(inFlight) :
       /\ inFlight[c].ev = "search"
       /\ inFlight[c].at = "primary" => trace = << >>
       /\ inFlight[c].at \in LaterAttempts
          => trace # << >> /\ IsDelay(trace[Len(trace)], inFlight[c].at)

\* the primary call and the product-name call failed, and the barcode call
\* was made: two delays were taken, each between a failure and the next call
C28_Witness ==
  /\ SearchOver
  /\ Len(trace) = 5
  /\ Failed("primary") /\ Failed("fallback")
  /\ IsDelay(trace[2], "fallback") /\ IsDelay(trace[4], "barcode")
  /\ IsSearch(trace[5], "barcode")

---------------------------------------------------------------------------
(* A primary search that succeeds *)

\* C29: when the primary search call succeeds, with results or with none,
\* performWebSearch is over at once: that call is the only search call, no
\* delay is taken, nothing is in flight, and the list returned is the list
\* the provider answered, as it answered it.
C29_PrimarySuccessIsFinal ==
  Succeeded("primary")
  => /\ SearchOver /\ SearchReturned
     /\ Len(AllSearchCalls) = 1
     /\ Calls("delay") = << >>
     /\ inFlight = << >>
     /\ trace[1].arg = primaryQuery
     /\ searchResults = Results(primaryQuery, trace[1].n)

\* the primary call answered no result, for attributes that name a product
\* and a barcode: the later steps had something to search for
C29_Witness ==
  /\ Succeeded("primary")
  /\ trace[1].n = 0
  /\ searchResults = << >>
  /\ FallbackApplies(primaryQuery, productData)
  /\ Barcode(productData) # << >>

---------------------------------------------------------------------------
(* One successful attempt at most *)

\* the positions in the trace of the search calls that succeeded
SuccessfulAttempts ==
  { i \in 1..Len(trace) : trace[i].ev = "search" /\ trace[i].out = "ok" }

\* C30: at most one search attempt of performWebSearch succeeds.  An
\* attempt that succeeded, even with no results, is the last thing
\* performWebSearch does; the list returned is the result list of that one
\* attempt, and it is empty when no attempt succeeded.
C30_AtMostOneSuccess ==
  /\ Cardinality(SuccessfulAttempts) <= 1
  /\ \A i \in SuccessfulAttempts :
       /\ i = Len(trace)
       /\ inFlight = << >>
       /\ SearchOver
       /\ searchResults = Results(trace[i].arg, trace[i].n)
  /\ SearchOver /\ SuccessfulAttempts = {} => searchResults = << >>

\* the primary call failed and the product-name call succeeded with no
\* result, for attributes that carry a barcode: no barcode call was made
C30_Witness ==
  /\ SearchOver
  /\ Failed("primary") /\ Succeeded("fallback")
  /\ SearchCalls("fallback")[1].n = 0
  /\ Barcode(productData) # << >>
  /\ SearchCalls("barcode") = << >>

---------------------------------------------------------------------------
(* The product-name step and the query *)

\* performWebSearch entered its product-name step
FallbackTaken ==
  \/ pc \in { "fallback_delay", "fallback_search" }
  \/ \E i \in 1..Len(trace) : IsDelay(trace[i], "fallback")

\* C31: a query built by buildSearchQuery from the attributes is never
\* equal to the trimmed product name of these attributes, because it carries
\* the fixed phrase; so once the primary call has failed, the product-name
\* step is taken exactly when the trimmed product name is not empty, and it
\* is skipped when the name is empty, brand or no brand.
C31_FallbackIffProductName ==
  primaryQuery = buildSearchQuery(productData)
  => /\ Pname(productData) # primaryQuery
     /\ Failed("primary") => (FallbackTaken <=> Pname(productData) # << >>)

\* the primary call failed for attributes with a brand and a blank product
\* name: performWebSearch is over and made no product-name call
C31_Witness ==
  /\ SearchOver
  /\ primaryQuery = buildSearchQuery(productData)
  /\ Failed("primary")
  /\ Get(productData, "product_name") = Str(<< " " >>)
  /\ BrandOf(productData) # << >>
  /\ ~ FallbackTaken

---------------------------------------------------------------------------
(* One response *)

\* C32: every request to the route gets exactly one response, on every
\* path: the handler is over exactly when a response was sent, a response
\* that was sent is never followed by another, and, every external call
\* returning or throwing in the end, the handler does get to its response.
C32_OneResponseAndTermination ==
  /\ [](pc = "done" <=> response # NoResponse)
  /\ [][response # NoResponse => response' = response]_vars
  /\ <>(pc = "done" /\ response # NoResponse)

\* a request answered with the full report after a vision call, two search
\* calls, five fetches and the synthesis call
C32_Witness ==
  /\ pc = "done"
  /\ IsFull(response)
  /\ Failed("primary") /\ Succeeded("fallback")
  /\ Len(Calls("fetch")) = 5
  /\ Calls("synthesis") # << >>

---------------------------------------------------------------------------
(* A body without imageUrl *)

NoImageUrl == "imageUrl" \notin DOMAIN body

\* C33: a request whose body has no imageUrl is rejected with the 400
\* response before any external call: no vision, search, page-fetch or
\* synthesis call is ever started or completed for it, and the only
\* response it gets is the 400.
C33_RejectedBeforeAnyCall ==
  NoImageUrl
  => /\ trace = << >>
     /\ inFlight = << >>
     /\ pc \in { "start", "done" }
     /\ pc = "done" => response = BadRequest /\ response.status = 400

\* the request with the empty body was answered
C33_Witness ==
  /\ NoImageUrl
  /\ pc = "done"
  /\ response.status = 400
  /\ trace = << >>

---------------------------------------------------------------------------
(* The food-analysis path *)

\* performWebSearch of the web search service has just returned
WebSearchReturned == pc \in { "nutrition_results", "allergen_results" }

\* the query performWebSearch was called with
WebQuery == IF pc = "nutrition_results" THEN Item ELSE FoodItem \o AllergenSuffix

\* the Google step gave nothing: it was not taken, it threw, or it answered
\* no item
GoogleGaveNothing ==
  \/ ~ food.google
  \/ /\ trace # << >>
     /\ trace[Len(trace)].ev = "google"
     /\ trace[Len(trace)].out = "throw" \/ trace[Len(trace)].n = 0

\* the search for the food item itself is over
MainNutritionOver ==
  \/ pc \in { "ingredient_delay", "allergen_google", "allergen_results", "allergen_gpt" }
  \/ pc \in { "nutrition_google", "nutrition_results", "nutrition_gpt" } /\ idx >= 1
  \/ pc = "food_done" /\ EnhancementApplies(food.enabled, food.analysis)

ExtractionsAt(at) ==
  SelectSeq(trace, LAMBDA e : e.ev = "extraction" /\ e.at = at)

\* C34: performWebSearch of the web search service never returns an empty
\* list: when the Google step is not taken, throws or answers no item, the
\* list is the single simulated result; so searchNutritionData, which runs
\* with the search enabled, always gets to its extraction call and returns
\* an object, never null.
C34_NeverEmptyList ==
  /\ WebSearchReturned
     => /\ Len(searchResults) >= 1
        /\ GoogleGaveNothing
           => /\ Len(searchResults) = 1
              /\ searchResults[1].source = "fallback"
              /\ searchResults[1].title = WebQuery
  /\ MainNutritionOver
     => /\ food.webNutritionData.k = "obj"
        /\ Len(ExtractionsAt("nutrition")) = 1
        /\ ExtractionsAt("nutrition")[1].n >= 1
  /\ pc = "ingredient_delay"
     => /\ Item \in DOMAIN food.ingredientData.o
        /\ Len(ExtractionsAt("ingredient")) = idx

\* the Google call answered no item and performWebSearch returned the
\* simulated result
C34_Witness ==
  /\ pc = "nutrition_results"
  /\ food.google
  /\ trace[Len(trace)].ev = "google"
  /\ trace[Len(trace)].out = "ok"
  /\ trace[Len(trace)].n = 0
  /\ searchResults[1].source = "fallback"

\* the vision call of analyzeFoodImage returned a reply
FoodVisionReplied ==
  Len(trace) >= 2 /\ trace[2].ev = "vision" /\ trace[2].out = "ok"

\* what the reply parses to
FoodVisionParse == ParseReply(trace[2].arg)

\* a call of the web search service was made: started or completed
WebSearchCallMade ==
  \/ \E i \in 1..Len(trace) : trace[i].ev \in { "google", "extraction" }
  \/ \E c \in 1..Len(inFlight) : inFlight[c].ev \in { "google", "extraction" }

ValidationFailed ==
  /\ trace # << >>
  /\ trace[1].ev = "head"
  /\ trace[1].out \in { "throw", "notimage" }

\* an OpenAI call or a call of the web search service was made: started or
\* completed
LaterCalls == { "vision", "google", "extraction" }
LaterCallMade ==
  \/ \E i \in 1..Len(trace) : trace[i].ev \in LaterCalls
  \/ \E c \in 1..Len(inFlight) : inFlight[c].ev \in LaterCalls

\* C36: analyzeFoodImage validates the image URL before the vision call:
\* no OpenAI call and no web-search call is made before validateImageUrl
\* has succeeded; and when it fails, none is ever made and the function
\* throws an error whose message starts with "Food analysis failed:".
C36_ValidatedBeforeVision ==
  /\ LaterCallMade
     => trace # << >> /\ trace[1].ev = "head" /\ trace[1].out = "image"
  /\ ValidationFailed
     => /\ ~ LaterCallMade
        /\ Len(trace) = 1
        /\ pc = "food_done"
        /\ output.k = "thrown"
        /\ Head(output.message) = "Food analysis failed:"

\* the URL served something that is not an image
C36_Witness ==
  /\ ValidationFailed
  /\ trace[1].out = "notimage"
  /\ pc = "food_done"
  /\ output.k = "thrown"

=============================================================================
